---- MODULE Spec2Model ----
(***************************************************************************)
(* A model of the Markdown engine of src/src/markdown.cpp.                 *)
(*                                                                         *)
(* A character is a one-character string; bytes that cannot be written as  *)
(* such are named (NUL, BT).  A buffer is a sequence of characters.  The C++   *)
(* code works on a pointer `data` into a zero-terminated buffer: here an   *)
(* operator takes the whole buffer `buf` and the absolute 0-based index    *)
(* `p` of data[0], so that data[k] is At(buf, p+k), also for negative k    *)
(* and for k at or past the `size` the callee was given.                   *)
(***************************************************************************)
EXTENDS Integers, Sequences, FiniteSets, TLC

VARIABLES
  pc,            \* position of the caller: which operation runs next
  input,         \* the text handed to the operation under study
  ret,           \* what the last operation returned (out-parameters included)
  m_out,         \* Markdown::m_out, the output buffer
  m_linkRefs,    \* Markdown::m_linkRefs, case-folded label -> LinkRef
  m_indentLevel, \* Markdown::m_indentLevel
  autoId,        \* the function-static counter of extractTitleId
  cur,           \* the local s of process: the text the running stage reads
  curIndent,     \* the local refIndent of process
  loop,          \* the locals of the running stage's loop
  config,        \* the configuration and constructor arguments of the run
  startNewlines, \* the caller's variable process counts newlines into
  results        \* the input and the return value of each run of process so far

vars == <<pc, input, ret, m_out, m_linkRefs, m_indentLevel, autoId,
          cur, curIndent, loop, config, startNewlines, results>>

engine == <<m_out, m_linkRefs, m_indentLevel, autoId>>

caller == <<cur, curIndent, loop, config, startNewlines, results>>

-----------------------------------------------------------------------------
(* Bounds of the model *)

\* longest text following the opening fence line's run in the fence inputs
MaxTail == 5
\* longest opening fence run tried
MaxFenceRun == 4

-----------------------------------------------------------------------------
(* Characters and buffers *)

NUL == "NUL"
\* the backtick, which a TLA+ string cannot hold
BT == "BT"
NL == "\n"
SP == " "

\* data[k] for the pointer data = buf + p; the byte after the text is the
\* terminating zero
At(buf, k) == IF k >= 0 /\ k < Len(buf) THEN buf[k+1] ELSE NUL

\* convertStringFragment(result, data+from, n)
\* and of GrowBuf::addStr(data+from,n): the copy stops at the terminating zero
Frag(buf, from, n) ==
  IF n <= 0 THEN <<>>
  ELSE SubSeq(buf, from+1, IF from+n < Len(buf) THEN from+n ELSE Len(buf))

\* n copies of character c
RECURSIVE Rep(_,_)
Rep(c, n) == IF n <= 0 THEN <<>> ELSE <<c>> \o Rep(c, n-1)

\* all sequences over alphabet A of length at most n
RECURSIVE SeqsUpTo(_,_)
SeqsUpTo(A, n) ==
  IF n = 0 THEN {<<>>}
  ELSE LET S == SeqsUpTo(A, n-1)
       IN S \cup {Append(x, a) : x \in {y \in S : Len(y) = n-1}, a \in A}

\* while (i<lim && data[i] is in S) i++      (absolute indices)
RECURSIVE SkipIn(_,_,_,_)
SkipIn(buf, i, lim, S) ==
  IF i < lim /\ At(buf, i) \in S THEN SkipIn(buf, i+1, lim, S) ELSE i

\* while (i<lim && data[i] is not in S) i++  (absolute indices)
RECURSIVE SkipNotIn(_,_,_,_)
SkipNotIn(buf, i, lim, S) ==
  IF i < lim /\ At(buf, i) \notin S THEN SkipNotIn(buf, i+1, lim, S) ELSE i

codeBlockIndent == 4

-----------------------------------------------------------------------------
(* isFencedCodeBlock *)

\* the search for the closing fence, i relative to data
RECURSIVE FenceClose(_,_,_,_,_,_)
FenceClose(buf, p, size, i, tildaChar, startTildes) ==
  IF i >= size THEN [res |-> FALSE, end |-> 0, offset |-> 0]
  ELSE IF At(buf, p+i) = tildaChar
  THEN LET i1 == SkipIn(buf, p+i, p+size, {tildaChar}) - p
           endTildes == i1 - i
           i2 == SkipIn(buf, p+i1, p+size, {SP}) - p
       IN IF (i2 = size \/ At(buf, p+i2) = NL) /\ endTildes = startTildes
          THEN [res |-> TRUE, end |-> i, offset |-> i2]
          ELSE FenceClose(buf, p, size, i2+1, tildaChar, startTildes)
  ELSE FenceClose(buf, p, size, i+1, tildaChar, startTildes)

NoFence == [res |-> FALSE, lang |-> <<>>, start |-> 0, end |-> 0, offset |-> 0]

\* isFencedCodeBlock(data,size,refIndent,lang,start,end,offset)
isFencedCodeBlock(buf, p, size, refIndent) ==
  LET i0 == SkipIn(buf, p, p+size, {SP}) - p
      indent == i0
  IN IF indent >= refIndent + 4 THEN NoFence
     ELSE
     LET tildaChar == IF i0 < size /\ At(buf, p+i0) = BT THEN BT ELSE "~"
         i1 == SkipIn(buf, p+i0, p+size, {tildaChar}) - p
         startTildes == i1 - i0
     IN IF startTildes < 3 THEN NoFence
        ELSE
        LET i2 == IF i1 < size /\ At(buf, p+i1) = "{" THEN i1+1 ELSE i1
            startLang == i2
            i3 == SkipNotIn(buf, p+i2, p+size, {NL, "}", SP}) - p
            lang == Frag(buf, p+startLang, i3-startLang)
            i4 == SkipNotIn(buf, p+i3, p+size, {NL}) - p
            c == FenceClose(buf, p, size, i4, tildaChar, startTildes)
        IN IF c.res
           THEN [res |-> TRUE, lang |-> lang, start |-> i4,
                 end |-> c.end, offset |-> c.offset]
           ELSE NoFence

-----------------------------------------------------------------------------
(* Specification of the fence detector: any text, one call *)

FenceAlphabet == {"~", BT, SP, NL, "a"}

FenceInputs ==
  { Rep(SP, ind) \o Rep(c, k) \o t :
      ind \in {0, 4}, c \in {"~", BT}, k \in 2..MaxFenceRun,
      t \in SeqsUpTo(FenceAlphabet, MaxTail) }

EngineInit ==
  /\ m_out = <<>>
  /\ m_linkRefs = <<>>
  /\ m_indentLevel = 0
  /\ autoId = 0

\* default configuration: no table of contents ids, no dot, no plantuml
DefaultConfig ==
  [toc |-> 0, plantuml |-> FALSE, haveDot |-> FALSE, indentLevel |-> 0]

\* the caller's variables while no run of process is under way
CallerIdle ==
  /\ cur = <<>>
  /\ curIndent = 0
  /\ loop = [i |-> 0, end |-> 0]
  /\ config = DefaultConfig
  /\ startNewlines = 0
  /\ results = <<>>

FenceInit ==
  /\ pc = "call"
  /\ input \in FenceInputs
  /\ ret = NoFence
  /\ EngineInit
  /\ CallerIdle

CallIsFencedCodeBlock ==
  /\ pc = "call"
  /\ ret' = isFencedCodeBlock(input, 0, Len(input), 0)
  /\ pc' = "fence"
  /\ UNCHANGED <<input, engine, caller>>

FenceNext == CallIsFencedCodeBlock

FenceSpec == FenceInit /\ [][FenceNext]_vars

-----------------------------------------------------------------------------
(* C1: fence matching *)

\* the opening run of a fence input: its first position, character and length
OpenerAt(buf) == SkipIn(buf, 0, Len(buf), {SP})
OpenerChar(buf) == At(buf, OpenerAt(buf))
OpenerLen(buf) ==
  SkipIn(buf, OpenerAt(buf), Len(buf), {OpenerChar(buf)}) - OpenerAt(buf)

\* the line holding position k, without its newline, spaces trimmed both sides
RECURSIVE LineStartOf(_,_)
LineStartOf(buf, k) ==
  IF k <= 0 \/ At(buf, k-1) = NL THEN k ELSE LineStartOf(buf, k-1)
RECURSIVE TrimRight(_)
TrimRight(t) ==
  IF t # <<>> /\ t[Len(t)] = SP THEN TrimRight(SubSeq(t, 1, Len(t)-1)) ELSE t
TrimmedLineOf(buf, k) ==
  LET ls == SkipIn(buf, LineStartOf(buf, k), Len(buf), {SP})
      le == SkipNotIn(buf, k, Len(buf), {NL})
  IN TrimRight(Frag(buf, ls, le - ls))

\* C1 (as claimed): a fenced block opened by a run of K characters C is
\* closed only by a line whose trimmed content is a run of at least K
\* characters C; a run that shares its line with preceding text does not
\* close the block.
C1_ClosedOnlyByOwnLineRun ==
  (pc = "fence" /\ ret.res) =>
    LET t == TrimmedLineOf(input, ret.end)
    IN /\ Len(t) >= OpenerLen(input)
       /\ \A j \in 1..Len(t) : t[j] = OpenerChar(input)

-----------------------------------------------------------------------------
(* Character classes *)

Lower == {"a","b","c","d","e","f","g","h","i","j","k","l","m",
          "n","o","p","q","r","s","t","u","v","w","x","y","z"}
Upper == {"A","B","C","D","E","F","G","H","I","J","K","L","M",
          "N","O","P","Q","R","S","T","U","V","W","X","Y","Z"}
Digit == {"0","1","2","3","4","5","6","7","8","9"}
\* bytes 0x80 and above, named by their value
HighByte == {"0xC2", "0xA0", "0xC3", "0xA9"}

\* isIdChar(i), applied to the character data[i]
isIdChar(c) == c \in Lower \cup Upper \cup Digit \cup HighByte

\* extraChar(i)
extraChar(c) == c \in {"-", "+", "!", "?", "$", "@", "&", "*", "%"}

\* isOpenEmphChar(i)
isOpenEmphChar(c) ==
  c \in {NL, SP, "'", "<", ">", "{", "(", "[", ",", ":", ";"}

\* ignoreCloseEmphChar(i) for absolute index k
ignoreCloseEmphChar(buf, k) ==
  \/ At(buf, k) \in {"(", "{", "[", "\\", "@"}
  \/ (At(buf, k) = "<" /\ At(buf, k+1) # "/")

\* what a handler hands back: its return value and what it appended to m_out
R0 == [ret |-> 0, out |-> <<>>]

-----------------------------------------------------------------------------
(* isBlockCommand *)

BlockNamesEnd ==
  {<<"d","o","t">>, <<"i","c","o","d","e">>, <<"m","s","c">>, <<"v","e","r","b","a","t","i","m">>, <<"i","v","e","r","b","a","t","i","m">>, <<"i","l","i","t","e","r","a","l">>, <<"l","a","t","e","x","o","n","l","y">>,
   <<"h","t","m","l","o","n","l","y">>, <<"x","m","l","o","n","l","y">>, <<"r","t","f","o","n","l","y">>, <<"m","a","n","o","n","l","y">>, <<"d","o","c","b","o","o","k","o","n","l","y">>}

\* the end marker for the block command at data, or <<>> when there is none
isBlockCommand(buf, p, offset, size) ==
  LET openBracket == offset > 0 /\ At(buf, p-1) = "{"
      isEscaped == offset > 0 /\ At(buf, p-1) \in {"\\", "@"}
      end == SkipIn(buf, p+1, p+size, Lower) - p
      blockName == Frag(buf, p+1, end-1)
      nextChar == IF end < size THEN At(buf, p+end) ELSE NUL
  IN IF isEscaped \/ end = 1 THEN <<>>
     ELSE IF blockName \in BlockNamesEnd THEN <<"e","n","d">> \o blockName
     ELSE IF blockName = <<"c","o","d","e">>
          THEN (IF openBracket THEN <<"}">> ELSE <<"e","n","d">> \o blockName)
     ELSE IF blockName = <<"s","t","a","r","t","u","m","l">> THEN <<"e","n","d","u","m","l">>
     ELSE IF blockName = <<"f">>
          THEN (CASE nextChar = "$" -> <<"f","$">>
                  [] nextChar = "(" -> <<"f",")">>
                  [] nextChar = "[" -> <<"f","]">>
                  [] nextChar = "{" -> <<"f","}">>
                  [] OTHER -> <<>>)
     ELSE <<>>

\* the loop that looks for the unescaped end marker: the first i in from..lim-1
\* holding an unescaped command that starts the marker, else the i the loop ended with
RECURSIVE FindEndBlock(_,_,_,_,_)
FindEndBlock(buf, p, i, lim, endBlockName) ==
  IF ~(i < lim) THEN i
  ELSE IF /\ At(buf, p+i) \in {"\\", "@"}
          /\ At(buf, p+i-1) \notin {"\\", "@"}
          /\ Frag(buf, p+i+1, Len(endBlockName)) = endBlockName
       THEN i
       ELSE FindEndBlock(buf, p, i+1, lim, endBlockName)

-----------------------------------------------------------------------------
(* findEmphasisChar and the emphasis handlers *)

RECURSIVE processInline(_,_,_,_)

\* the scan for the end of a code span inside findEmphasisChar (absolute i)
RECURSIVE EmphSkipSpan(_,_,_,_,_)
EmphSkipSpan(buf, i, lim, snb, enb) ==
  IF i < lim /\ enb < snb
  THEN IF snb = 1 /\ At(buf, i) = "'"
       THEN i
       ELSE EmphSkipSpan(buf, i+1, lim, snb,
                         IF At(buf, i) = BT THEN enb+1 ELSE enb)
  ELSE i

\* the characters the scan for the closing emphasis stops at
EmphStop(buf, p, c, k) ==
  \/ At(buf, p+k) \in {c, BT, "\\", "@", NL}
  \/ (At(buf, p+k) = "/" /\ At(buf, p+k-1) = "<")

RECURSIVE FindEmph(_,_,_,_,_,_)
\* FindEmph from the value of i1 on
FindEmph_i1(buf, p, size, c, c_size, i1) ==
  LET len == SkipIn(buf, p+i1, p+size, {c}) - (p+i1)
      d == At(buf, p+i1)
  IN IF ignoreCloseEmphChar(buf, p+i1-1)
     THEN FindEmph(buf, p, size, c, c_size, i1+1)
     ELSE IF len > 0
     THEN IF len # c_size \/ (i1 < size-len /\ isIdChar(At(buf, p+i1+len)))
          THEN FindEmph(buf, p, size, c, c_size, i1+len)
          ELSE i1
     ELSE IF d = BT
     THEN LET i2 == SkipIn(buf, p+i1, p+size, {BT}) - p
              i3 == EmphSkipSpan(buf, p+i2, p+size, i2-i1, 0) - p
          IN FindEmph(buf, p, size, c, c_size, i3)
     ELSE IF d \in {"@", "\\"}
     THEN LET endBlockName == isBlockCommand(buf, p+i1, i1, size-i1)
          IN IF endBlockName # <<>>
             THEN FindEmph(buf, p, size, c, c_size,
                    FindEndBlock(buf, p, i1+1, size-Len(endBlockName),
                                 endBlockName))
             ELSE IF i1 < size-1 /\ isIdChar(At(buf, p+i1+1)) THEN 0
             ELSE FindEmph(buf, p, size, c, c_size, i1+1)
     ELSE IF At(buf, p+i1-1) = "<" /\ d = "/" THEN 0
     ELSE IF d = NL
     THEN LET i2 == SkipIn(buf, p+i1+1, p+size, {SP}) - p
          IN IF i2 >= size \/ At(buf, p+i2) = NL THEN 0
             ELSE FindEmph(buf, p, size, c, c_size, i2)
     ELSE FindEmph(buf, p, size, c, c_size, i1+1)

FindEmph(buf, p, size, c, c_size, i) ==
  IF ~(i < size) THEN 0
  ELSE
  LET i1 == CHOOSE k \in i..size :
              /\ (k = size \/ EmphStop(buf, p, c, k))
              /\ \A j \in i..k-1 : ~EmphStop(buf, p, c, j)
  IN FindEmph_i1(buf, p, size, c, c_size, i1)

\* findEmphasisChar looking for a single closing character whatever c_size
findEmphasisChar_sizeOne(buf, p, size, c, c_size) ==
  FindEmph(buf, p, size, c, 1, 1)

findEmphasisChar(buf, p, size, c, c_size) == FindEmph(buf, p, size, c, c_size, 1)

RECURSIVE Emph1Loop(_,_,_,_,_,_)
\* Emph1Loop from the value of len on
Emph1Loop_len(buf, p, size, c, cx, i, len) ==
  LET j == i + len
  IN IF len = 0 \/ j >= size THEN R0
     ELSE IF j+1 < size /\ At(buf, p+j+1) = c
     THEN Emph1Loop(buf, p, size, c, cx, j+1)
     ELSE IF At(buf, p+j) = c /\ At(buf, p+j-1) \notin {SP, NL}
     THEN [ret |-> j+1,
           out |-> <<"<","e","m",">">> \o processInline(buf, p, j, cx) \o <<"<","/","e","m",">">>]
     ELSE Emph1Loop(buf, p, size, c, cx, j)

Emph1Loop(buf, p, size, c, cx, i) ==
  IF ~(i < size) THEN R0
  ELSE
  LET len == findEmphasisChar(buf, p+i, size-i, c, 1)
  IN Emph1Loop_len(buf, p, size, c, cx, i, len)

processEmphasis1(buf, p, size, c, cx) ==
  Emph1Loop(buf, p, size, c, cx,
            IF size > 1 /\ At(buf, p) = c /\ At(buf, p+1) = c THEN 1 ELSE 0)

RECURSIVE Emph2Loop(_,_,_,_,_,_)
\* Emph2Loop from the value of len on
Emph2Loop_len(buf, p, size, c, cx, i, len) ==
  LET j == i + len
  IN IF len = 0 THEN R0
     ELSE IF /\ j+1 < size /\ At(buf, p+j) = c /\ At(buf, p+j+1) = c
             /\ j # 0 /\ At(buf, p+j-1) \notin {SP, NL}
     THEN [ret |-> j+2,
           out |-> (IF c = "~" THEN <<"<","s","t","r","i","k","e",">">> ELSE <<"<","s","t","r","o","n","g",">">>)
                   \o processInline(buf, p, j, cx)
                   \o (IF c = "~" THEN <<"<","/","s","t","r","i","k","e",">">> ELSE <<"<","/","s","t","r","o","n","g",">">>)]
     ELSE Emph2Loop(buf, p, size, c, cx, j+1)

Emph2Loop(buf, p, size, c, cx, i) ==
  IF ~(i < size) THEN R0
  ELSE
  LET len == findEmphasisChar(buf, p+i, size-i, c, 2)
  IN Emph2Loop_len(buf, p, size, c, cx, i, len)

processEmphasis2(buf, p, size, c, cx) == Emph2Loop(buf, p, size, c, cx, 0)

\* a delegated result, shifted back by the number of characters handed over
Shifted(r, n) == IF r.ret = 0 THEN [ret |-> 0, out |-> r.out]
                 ELSE [ret |-> r.ret - n, out |-> r.out]

RECURSIVE Emph3Loop(_,_,_,_,_,_)
\* Emph3Loop from the value of len on
Emph3Loop_len(buf, p, size, c, cx, i, len) ==
  LET j == i + len
  IN IF len = 0 THEN R0
     ELSE IF At(buf, p+j) # c \/ At(buf, p+j-1) \in {SP, NL}
     THEN Emph3Loop(buf, p, size, c, cx, j)
     ELSE IF j+2 < size /\ At(buf, p+j+1) = c /\ At(buf, p+j+2) = c
     THEN [ret |-> j+3,
           out |-> <<"<","e","m",">","<","s","t","r","o","n","g",">">> \o processInline(buf, p, j, cx)
                   \o <<"<","/","s","t","r","o","n","g",">","<","/","e","m",">">>]
     ELSE IF j+1 < size /\ At(buf, p+j+1) = c
     THEN Shifted(processEmphasis1(buf, p-2, size+2, c, cx), 2)
     ELSE Shifted(processEmphasis2(buf, p-1, size+1, c, cx), 1)

Emph3Loop(buf, p, size, c, cx, i) ==
  IF ~(i < size) THEN R0
  ELSE
  LET len == findEmphasisChar(buf, p+i, size-i, c, 3)
  IN Emph3Loop_len(buf, p, size, c, cx, i, len)

processEmphasis3(buf, p, size, c, cx) == Emph3Loop(buf, p, size, c, cx, 0)

\* what may follow an opening run: isIdChar, extraChar or '['
EmphFollow(ch) == isIdChar(ch) \/ extraChar(ch) \/ ch = "["

\* processEmphasis from the value of r on
processEmphasis_r(r) ==
  IF r.ret = 0 THEN [ret |-> 0, out |-> r.out]
  ELSE [ret |-> r.ret+1, out |-> r.out]

\* processEmphasis from the value of r on
processEmphasis_r2(r) ==
  IF r.ret = 0 THEN [ret |-> 0, out |-> r.out]
  ELSE [ret |-> r.ret+2, out |-> r.out]

\* processEmphasis from the value of r on
processEmphasis_r3(r) ==
  IF r.ret = 0 THEN [ret |-> 0, out |-> r.out]
  ELSE [ret |-> r.ret+3, out |-> r.out]

processEmphasis(buf, p, offset, size, cx) ==
  LET c == At(buf, p)
      d1 == At(buf, p+1)
      d2 == At(buf, p+2)
      d3 == At(buf, p+3)
  IN IF \/ (offset > 0 /\ ~isOpenEmphChar(At(buf, p-1)))
        \/ (size > 1 /\ c # d1 /\ ~EmphFollow(d1))
        \/ (size > 2 /\ c = d1 /\ ~EmphFollow(d2))
     THEN R0
     ELSE IF size > 2 /\ c # "~" /\ d1 # c
     THEN IF d1 \in {SP, NL} THEN R0
          ELSE LET r == processEmphasis1(buf, p+1, size-1, c, cx)
               IN processEmphasis_r(r)
     ELSE IF size > 3 /\ d1 = c /\ d2 # c
     THEN IF d2 \in {SP, NL} THEN R0
          ELSE LET r == processEmphasis2(buf, p+2, size-2, c, cx)
               IN processEmphasis_r2(r)
     ELSE IF size > 4 /\ c # "~" /\ d1 = c /\ d2 = c /\ d3 # c
     THEN IF d3 \in {SP, NL} THEN R0
          ELSE LET r == processEmphasis3(buf, p+3, size-3, c, cx)
               IN processEmphasis_r3(r)
     ELSE R0

-----------------------------------------------------------------------------
(* processNmdash and processQuoted *)

\* processNmdash_noOperator from the value of count on
processNmdash_noOperator_count(buf, p, off, count) ==
  IF count >= 2 /\ off >= 2 /\ Frag(buf, p-2, 2) = <<"<","!">>
  THEN [ret |-> 1-count, out |-> <<>>]
  ELSE IF count = 2 /\ At(buf, p+2) = ">" THEN R0
  ELSE IF count = 2 THEN [ret |-> 2, out |-> <<"&","n","d","a","s","h",";">>]
  ELSE IF count = 3 THEN [ret |-> 3, out |-> <<"&","m","d","a","s","h",";">>]
  ELSE R0

\* processNmdash without the test for a preceding `operator`
processNmdash_noOperator(buf, p, off, size) ==
  LET c2 == 1 < size /\ At(buf, p+1) = "-"
      i2 == IF c2 THEN 2 ELSE 1
      c3 == i2 < size /\ At(buf, p+i2) = "-"
      i3 == IF c3 THEN i2+1 ELSE i2
      c4 == i3 < size /\ At(buf, p+i3) = "-"
      count == 1 + (IF c2 THEN 1 ELSE 0) + (IF c3 THEN 1 ELSE 0)
                 + (IF c4 THEN 1 ELSE 0)
  IN processNmdash_noOperator_count(buf, p, off, count)

\* processNmdash from the value of count on
processNmdash_count(buf, p, off, count) ==
  IF count >= 2 /\ off >= 2 /\ Frag(buf, p-2, 2) = <<"<","!">>
  THEN [ret |-> 1-count, out |-> <<>>]
  ELSE IF count = 2 /\ At(buf, p+2) = ">" THEN R0
  ELSE IF count = 2 /\ (off < 8 \/ Frag(buf, p-8, 8) # <<"o","p","e","r","a","t","o","r">>)
  THEN [ret |-> 2, out |-> <<"&","n","d","a","s","h",";">>]
  ELSE IF count = 3 THEN [ret |-> 3, out |-> <<"&","m","d","a","s","h",";">>]
  ELSE R0

processNmdash(buf, p, off, size) ==
  LET c2 == 1 < size /\ At(buf, p+1) = "-"
      i2 == IF c2 THEN 2 ELSE 1
      c3 == i2 < size /\ At(buf, p+i2) = "-"
      i3 == IF c3 THEN i2+1 ELSE i2
      c4 == i3 < size /\ At(buf, p+i3) = "-"
      count == 1 + (IF c2 THEN 1 ELSE 0) + (IF c3 THEN 1 ELSE 0)
                 + (IF c4 THEN 1 ELSE 0)
  IN processNmdash_count(buf, p, off, count)

\* the scan of processQuoted: where it stops and the newlines counted
RECURSIVE QuotedScan(_,_,_,_,_)
QuotedScan(buf, p, size, i, nl) ==
  IF i < size /\ At(buf, p+i) # "\"" /\ nl < 2
  THEN QuotedScan(buf, p, size, i+1, IF At(buf, p+i) = NL THEN nl+1 ELSE nl)
  ELSE [i |-> i, nl |-> nl]

processQuoted(buf, p, size) ==
  LET s == QuotedScan(buf, p, size, 1, 0)
  IN IF s.i < size /\ At(buf, p+s.i) = "\"" /\ s.nl < 2
     THEN [ret |-> s.i+1, out |-> Frag(buf, p, s.i+1)]
     ELSE R0

-----------------------------------------------------------------------------
(* QCString operations used by the engine *)

toLower(c) ==
  IF c \in Upper
  THEN CHOOSE l \in Lower :
         \E k \in 1..26 :
           /\ <<"A","B","C","D","E","F","G","H","I","J","K","L","M","N","O","P","Q","R","S","T","U","V","W","X","Y","Z">>[k] = c
           /\ <<"a","b","c","d","e","f","g","h","i","j","k","l","m","n","o","p","q","r","s","t","u","v","w","x","y","z">>[k] = l
  ELSE c

\* QCString::lower
lower(s) == [k \in 1..Len(s) |-> toLower(s[k])]

\* what QCString treats as white space
IsSpace(c) == c \in {SP, NL, "\t", "\r"}

RECURSIVE StripLeft(_)
StripLeft(s) == IF s # <<>> /\ IsSpace(s[1]) THEN StripLeft(Tail(s)) ELSE s
RECURSIVE StripRight(_)
StripRight(s) ==
  IF s # <<>> /\ IsSpace(s[Len(s)])
  THEN StripRight(SubSeq(s, 1, Len(s)-1)) ELSE s

\* QCString::stripWhiteSpace
stripWhiteSpace(s) == StripRight(StripLeft(s))

\* QCString::simplifyWhiteSpace: strip, and every inner run of white space
\* becomes one space
RECURSIVE Squeeze(_)
Squeeze(s) ==
  IF s = <<>> THEN <<>>
  ELSE IF IsSpace(s[1])
  THEN <<SP>> \o Squeeze(StripLeft(s))
  ELSE <<s[1]>> \o Squeeze(Tail(s))
simplifyWhiteSpace(s) == Squeeze(stripWhiteSpace(s))

\* does t occur in s at 0-based position k
OccursAt(s, t, k) ==
  k >= 0 /\ k + Len(t) <= Len(s) /\ SubSeq(s, k+1, k+Len(t)) = t

\* QCString::find: first position of t in s, or -1
find(s, t) ==
  IF \E k \in 0..Len(s) : OccursAt(s, t, k)
  THEN CHOOSE k \in 0..Len(s) :
         OccursAt(s, t, k) /\ \A j \in 0..k-1 : ~OccursAt(s, t, j)
  ELSE -1

\* substitute(s,src,dst) for a non-empty src
RECURSIVE substitute(_,_,_)
substitute(s, src, dst) ==
  IF s = <<>> THEN <<>>
  ELSE IF OccursAt(s, src, 0)
  THEN dst \o substitute(SubSeq(s, Len(src)+1, Len(s)), src, dst)
  ELSE <<s[1]>> \o substitute(Tail(s), src, dst)

\* QCString::setNum for the small numbers the model prints
RECURSIVE setNum(_)
setNum(n) ==
  IF n < 10 THEN <<<<"0","1","2","3","4","5","6","7","8","9">>[n+1]>>
  ELSE setNum(n \div 10) \o <<<<"0","1","2","3","4","5","6","7","8","9">>[(n % 10)+1]>>

-----------------------------------------------------------------------------
(* escapeSpecialChars *)

RECURSIVE EscapeSpecial(_,_,_,_)
EscapeSpecial(s, k, pch, insideQuote) ==
  IF k > Len(s) THEN <<>>
  ELSE
  LET c == s[k]
  IN IF c = "\""
     THEN <<c>> \o EscapeSpecial(s, k+1, c,
                     IF pch # "\\" THEN ~insideQuote ELSE insideQuote)
     ELSE IF c \in {"<", ">"}
     THEN IF ~insideQuote
          THEN IF At(s, k) = ":" /\ At(s, k+1) = ":"
               THEN <<"\\", c, "\\", ":">>
                    \o EscapeSpecial(s, k+2, c, insideQuote)
               ELSE <<"\\", c>> \o EscapeSpecial(s, k+1, c, insideQuote)
          ELSE <<c>> \o EscapeSpecial(s, k+1, c, insideQuote)
     ELSE IF c \in {"\\", "@", "#", "$", "&"}
     THEN (IF ~insideQuote THEN <<"\\", c>> ELSE <<c>>)
          \o EscapeSpecial(s, k+1, c, insideQuote)
     ELSE <<c>> \o EscapeSpecial(s, k+1, c, insideQuote)

escapeSpecialChars(s) == EscapeSpecial(s, 1, NUL, FALSE)

-----------------------------------------------------------------------------
(* processHtmlTagWrite *)

\* the scan for </pre>
RECURSIVE PreScan(_,_,_,_,_)
PreScan(buf, p, size, i, insideStr) ==
  IF ~(i < size-6) THEN 0
  ELSE
  LET c == At(buf, p+i)
  IN IF ~insideStr /\ c = "<"
     THEN IF /\ At(buf, p+i+1) = "/"
             /\ toLower(At(buf, p+i+2)) = "p"
             /\ toLower(At(buf, p+i+3)) = "r"
             /\ toLower(At(buf, p+i+4)) = "e"
             /\ toLower(At(buf, p+i+5)) = ">"
          THEN i+6
          ELSE PreScan(buf, p, size, i+1, insideStr)
     ELSE IF insideStr /\ c = "\""
     THEN PreScan(buf, p, size, i+1,
                  IF At(buf, p+i-1) # "\\" THEN FALSE ELSE insideStr)
     ELSE IF c = "\""
     THEN PreScan(buf, p, size, i+1, TRUE)
     ELSE PreScan(buf, p, size, i+1, insideStr)

\* the scan over the attributes of a tag for its closing '>'
RECURSIVE AttrScan(_,_,_,_,_)
AttrScan(buf, p, size, i, insideAttr) ==
  IF ~(i < size) THEN 0
  ELSE IF ~insideAttr /\ At(buf, p+i) = "\""
  THEN AttrScan(buf, p, size, i+1, TRUE)
  ELSE IF At(buf, p+i) = "\"" /\ At(buf, p+i-1) # "\\"
  THEN AttrScan(buf, p, size, i+1, FALSE)
  ELSE IF ~insideAttr /\ At(buf, p+i) = ">"
  THEN i+1
  ELSE AttrScan(buf, p, size, i+1, insideAttr)

\* processHtmlTagWrite from the value of n on
processHtmlTagWrite_n(buf, p, doWrite, n) ==
  [ret |-> n, out |-> IF doWrite THEN Frag(buf, p, n) ELSE <<>>]

\* processHtmlTagWrite from the value of i on
processHtmlTagWrite_i(buf, p, size, doWrite, i) ==
  LET l == i - 1
      tagName == Frag(buf, p+1, i-1)
      n == IF lower(tagName) = <<"p","r","e">> THEN PreScan(buf, p, size, i, FALSE)
           ELSE IF l > 0 /\ i < size
           THEN IF At(buf, p+i) = "/" /\ i < size-1 /\ At(buf, p+i+1) = ">"
                THEN i+2
                ELSE IF At(buf, p+i) = ">" THEN i+1
                ELSE IF At(buf, p+i) = SP
                THEN AttrScan(buf, p, size, i+1, FALSE)
                ELSE 0
           ELSE 0
  IN processHtmlTagWrite_n(buf, p, doWrite, n)

processHtmlTagWrite(buf, p, offset, size, doWrite) ==
  IF offset > 0 /\ At(buf, p-1) = "\\" THEN R0
  ELSE
  LET i == SkipIn(buf, p+1, p+size, Lower \cup Upper \cup Digit \cup HighByte) - p
  IN processHtmlTagWrite_i(buf, p, size, doWrite, i)

processHtmlTag(buf, p, offset, size) ==
  processHtmlTagWrite(buf, p, offset, size, TRUE)

-----------------------------------------------------------------------------
(* processCodeSpan *)

\* the for loop looking for the closing delimiter; quote is set when the
\* span was ended by a single quote
RECURSIVE SpanScan(_,_,_,_,_,_,_)
SpanScan(buf, p, size, nb, end, i, nl) ==
  IF ~(end < size /\ i < nb /\ nl < 2)
  THEN [end |-> end, i |-> i, nl |-> nl, quote |-> FALSE]
  ELSE
  LET c == At(buf, p+end)
  IN IF c = BT THEN SpanScan(buf, p, size, nb, end+1, i+1, nl)
     ELSE IF c = NL THEN SpanScan(buf, p, size, nb, end+1, 0, nl+1)
     ELSE IF /\ c = "'" /\ nb = 1
             /\ (end = size-1 \/ (end < size-1 /\ ~isIdChar(At(buf, p+end+1))))
     THEN [end |-> end, i |-> i, nl |-> nl, quote |-> TRUE]
     ELSE SpanScan(buf, p, size, nb, end+1, 0, nl)

RECURSIVE SkipBackSpaces(_,_,_)
SkipBackSpaces(buf, k, lim) ==
  IF k > lim /\ At(buf, k-1) = SP THEN SkipBackSpaces(buf, k-1, lim) ELSE k

\* processCodeSpan from the value of s on
processCodeSpan_s(buf, p, size, nb, s) ==
  LET end == s.end
  IN IF s.quote
     THEN [ret |-> end+1,
           out |-> <<"&","l","s","q","u","o",";">> \o Frag(buf, p+nb, end-nb) \o <<"&","r","s","q","u","o",";">>]
     ELSE IF s.i < nb /\ end >= size THEN R0
     ELSE IF s.nl = 2 THEN R0
     ELSE
     LET f_begin == SkipIn(buf, p+nb, p+end, {SP}) - p
         f_end == SkipBackSpaces(buf, p+end-nb, p+nb) - p
     IN [ret |-> end,
         out |-> IF f_begin < f_end
                 THEN <<"<","t","t",">">>
                      \o escapeSpecialChars(Frag(buf, p+f_begin, f_end-f_begin))
                      \o <<"<","/","t","t",">">>
                 ELSE <<>>]

processCodeSpan(buf, p, size) ==
  LET nb == SkipIn(buf, p, p+size, {BT}) - p
      s == SpanScan(buf, p, size, nb, nb, 0, 0)
  IN processCodeSpan_s(buf, p, size, nb, s)

-----------------------------------------------------------------------------
(* isSpecialCommand *)

\* endOfLine: skip to the end of the line, allowing line continuations
RECURSIVE endOfLine(_,_,_,_,_)
endOfLine(buf, p, o, size, lc) ==
  IF o < size /\ (At(buf, p+o) # NL \/ lc = "\\")
  THEN LET c == At(buf, p+o)
       IN endOfLine(buf, p, o+1, size,
            IF c = "\\" THEN "\\" ELSE IF c # SP THEN NUL ELSE lc)
  ELSE o

endOfLabel(buf, p, o, size) ==
  IF o < size /\ At(buf, p+o) = SP
  THEN LET o1 == SkipIn(buf, p+o+1, p+size, {SP})
       IN SkipNotIn(buf, o1, p+size, {SP, "\\", "@", NL}) - p
  ELSE 0

endOfParam(buf, p, o, size) ==
  LET index == IF o < size /\ At(buf, p+o) = SP
               THEN SkipIn(buf, p+o+1, p+size, {SP}) - p ELSE o
  IN IF index < size /\ At(buf, p+index) = "["
     THEN LET i2 == SkipNotIn(buf, p+index+1, p+size, {"]", NL}) - p
          IN IF i2 = size \/ At(buf, p+i2) # "]" THEN 0
             ELSE endOfLabel(buf, p, i2+1, size)
     ELSE endOfLabel(buf, p, o, size)

\* the search for the parenthesis closing a function's argument list
RECURSIVE FuncClose(_,_,_,_,_)
FuncClose(buf, p, o, size, count) ==
  IF o < size /\ At(buf, p+o) # NUL
  THEN LET c == At(buf, p+o)
           n == IF c = "(" THEN count+1 ELSE IF c = ")" THEN count-1 ELSE count
       IN IF n = 0 THEN o+1 ELSE FuncClose(buf, p, o+1, size, n)
  ELSE IF o < size THEN o+1 ELSE o

endOfFuncLike(buf, p, o, size, allowSpaces) ==
  IF o < size /\ At(buf, p+o) = SP
  THEN LET o1 == SkipIn(buf, p+o+1, p+size, {SP})
           o2 == SkipNotIn(buf, o1, p+size,
                           IF allowSpaces THEN {NL, "("} ELSE {NL, SP, "("}) - p
       IN IF o2 < size /\ At(buf, p+o2) = "("
          THEN FuncClose(buf, p, o2+1, size, 1)
          ELSE o2
  ELSE 0

endOfFunc(buf, p, o, size) == endOfFuncLike(buf, p, o, size, TRUE)
endOfGuard(buf, p, o, size) == endOfFuncLike(buf, p, o, size, FALSE)

CmdEndOfLabel ==
  {<<"a">>, <<"a","d","d","t","o","g","r","o","u","p">>, <<"a","n","c","h","o","r">>, <<"b">>, <<"c">>, <<"c","i","t","e">>, <<"d","e","f","g","r","o","u","p">>, <<"e">>, <<"e","m">>,
   <<"e","m","o","j","i">>, <<"e","n","u","m">>, <<"e","x","t","e","n","d","s">>, <<"i","n","g","r","o","u","p">>, <<"m","e","m","b","e","r","o","f">>, <<"n","a","m","e","s","p","a","c","e">>, <<"p">>,
   <<"p","a","c","k","a","g","e">>, <<"p","a","g","e">>, <<"p","a","r","a","g","r","a","p","h">>, <<"r","e","f">>, <<"r","e","l","a","t","e","d">>, <<"r","e","l","a","t","e","d","a","l","s","o">>,
   <<"r","e","l","a","t","e","s">>, <<"r","e","l","a","t","e","s","a","l","s","o">>, <<"r","e","t","v","a","l">>, <<"s","e","c","t","i","o","n">>, <<"s","u","b","p","a","g","e">>, <<"s","u","b","s","e","c","t","i","o","n">>,
   <<"s","u","b","s","u","b","s","e","c","t","i","o","n">>, <<"t","h","r","o","w">>, <<"t","h","r","o","w","s">>, <<"t","p","a","r","a","m">>, <<"w","e","a","k","g","r","o","u","p">>, <<"x","r","e","f","i","t","e","m">>}
CmdEndOfLine ==
  {<<"a","d","d","i","n","d","e","x">>, <<"c","a","t","e","g","o","r","y">>, <<"c","l","a","s","s">>, <<"c","o","n","c","e","p","t">>, <<"d","i","a","f","i","l","e">>, <<"d","i","r">>,
   <<"d","o","c","k","b","o","o","k","i","n","c","l","u","d","e">>, <<"d","o","n","t","i","n","c","l","u","d","e">>, <<"d","o","t","f","i","l","e">>, <<"e","x","a","m","p","l","e">>, <<"e","x","c","e","p","t","i","o","n">>,
   <<"f","i","l","e">>, <<"h","e","a","d","e","r","f","i","l","e">>, <<"h","t","m","l","i","n","c","l","u","d","e">>, <<"i","d","l","e","x","c","e","p","t">>, <<"i","m","a","g","e">>, <<"i","m","p","l","e","m","e","n","t","s">>,
   <<"i","n","c","l","u","d","e">>, <<"i","n","c","l","u","d","e","d","o","c">>, <<"i","n","c","l","u","d","e","l","i","n","e","n","o">>, <<"i","n","t","e","r","f","a","c","e">>, <<"l","a","t","e","x","i","n","c","l","u","d","e">>,
   <<"m","a","n","i","n","c","l","u","d","e">>, <<"m","s","c","f","i","l","e">>, <<"n","o","o","p">>, <<"o","v","e","r","l","o","a","d">>, <<"p","r","o","p","e","r","t","y">>, <<"p","r","o","t","o","c","o","l">>,
   <<"q","u","a","l","i","f","i","e","r">>, <<"r","e","f","i","t","e","m">>, <<"r","t","f","i","n","c","l","u","d","e">>, <<"s","k","i","p">>, <<"s","k","i","p","l","i","n","e">>, <<"s","n","i","p","p","e","t">>,
   <<"s","n","i","p","p","e","t","d","o","c">>, <<"s","n","i","p","p","e","t","l","i","n","e","n","o">>, <<"s","t","r","u","c","t">>, <<"t","y","p","e","d","e","f">>, <<"u","n","i","o","n">>, <<"u","n","t","i","l">>,
   <<"v","a","r">>, <<"v","e","r","b","i","n","c","l","u","d","e">>, <<"x","m","l","i","n","c","l","u","d","e">>}
CmdEndOfFunc == {<<"c","o","p","y","b","r","i","e","f">>, <<"c","o","p","y","d","e","t","a","i","l","s">>, <<"c","o","p","y","d","o","c">>, <<"d","e","f">>, <<"f","n">>}
CmdEndOfGuard == {<<"e","l","s","e","i","f">>, <<"i","f">>, <<"i","f","n","o","t">>}
CmdEndOfParam == {<<"p","a","r","a","m">>}

isSpecialCommand(buf, p, offset, size) ==
  LET isEscaped == offset > 0 /\ At(buf, p-1) \in {"\\", "@"}
      end == SkipIn(buf, p+1, p+size, Lower) - p
      cmdName == Frag(buf, p+1, end-1)
  IN IF isEscaped \/ end = 1 THEN 0
     ELSE IF cmdName \in CmdEndOfLabel THEN endOfLabel(buf, p, end, size)
     ELSE IF cmdName \in CmdEndOfLine
          THEN endOfLine(buf, p, end, size, NUL)
     ELSE IF cmdName \in CmdEndOfFunc THEN endOfFunc(buf, p, end, size)
     ELSE IF cmdName \in CmdEndOfGuard THEN endOfGuard(buf, p, end, size)
     ELSE IF cmdName \in CmdEndOfParam THEN endOfParam(buf, p, end, size)
     ELSE 0

-----------------------------------------------------------------------------
(* processSpecialCommand *)

g_utf8_nbsp == <<"0xC2", "0xA0">>
g_doxy_nbsp == <<"&","_","d","o","x","y","_","n","b","s","p",";">>

addStrEscapeUtf8Nbsp(buf, p, len) ==
  substitute(Frag(buf, p, len), g_doxy_nbsp, g_utf8_nbsp)

\* processSpecialCommand from the value of endPos on
processSpecialCommand_endPos(buf, p, size, endBlockName, l, i, endPos) ==
  LET c == At(buf, p+1)
  IN IF endBlockName # <<>> /\ i < size-l
     THEN [ret |-> i+1+l, out |-> addStrEscapeUtf8Nbsp(buf, p, i+1+l)]
     ELSE IF endPos > 0
     THEN [ret |-> endPos, out |-> Frag(buf, p, endPos)]
     ELSE IF size > 1 /\ At(buf, p) = "\\"
     THEN IF c \in {"[", "]", "*", "!", "(", ")", BT, "_"}
          THEN [ret |-> 2, out |-> <<c>>]
          ELSE IF c = "-" /\ size > 3 /\ At(buf, p+2) = "-" /\ At(buf, p+3) = "-"
          THEN [ret |-> 4, out |-> Frag(buf, p+1, 3)]
          ELSE IF c = "-" /\ size > 2 /\ At(buf, p+2) = "-"
          THEN [ret |-> 3, out |-> Frag(buf, p+1, 2)]
          ELSE R0
     ELSE R0

\* processSpecialCommand from the value of endBlockName on
processSpecialCommand_endBlockName(buf, p, offset, size, endBlockName) ==
  LET l == Len(endBlockName)
      i == IF endBlockName # <<>>
           THEN FindEndBlock(buf, p, 1, size-l, endBlockName) ELSE size
      endPos == isSpecialCommand(buf, p, offset, size)
  IN processSpecialCommand_endPos(buf, p, size, endBlockName, l, i, endPos)

processSpecialCommand(buf, p, offset, size) ==
  LET endBlockName == isBlockCommand(buf, p, offset, size)
  IN processSpecialCommand_endBlockName(buf, p, offset, size, endBlockName)

-----------------------------------------------------------------------------
(* Collaborators of processLink outside this file, as one fixed environment: *)
(* default configuration, no image files and no Markdown files on disk      *)

StartsWith(s, t) == OccursAt(s, t, 0)
EndsWith(s, t) == OccursAt(s, t, Len(s) - Len(t))

\* getLanguageFromFileName(link)==SrcLangExt_Markdown
isMarkdownFileName(link) ==
  EndsWith(lower(link), <<".","m","d">>) \/ EndsWith(lower(link), <<".","m","a","r","k","d","o","w","n">>)

isURL(url) ==
  \E pre \in {<<"h","t","t","p",":","/","/">>, <<"h","t","t","p","s",":","/","/">>, <<"f","t","p",":","/","/">>, <<"f","t","p","s",":","/","/">>, <<"s","f","t","p",":","/","/">>,
              <<"f","i","l","e",":","/","/">>, <<"n","e","w","s",":">>, <<"i","r","c",":","/","/">>, <<"i","r","c","s",":","/","/">>} :
    StartsWith(lower(url), pre)

\* externalLinkTarget() with EXT_LINKS_IN_WINDOW=NO
externalLinkTarget == <<>>

\* split(s,","): the non-empty parts between the commas
RECURSIVE split(_,_)
split(s, acc) ==
  IF s = <<>> THEN (IF acc = <<>> THEN <<>> ELSE <<acc>>)
  ELSE IF s[1] = ","
  THEN (IF acc = <<>> THEN <<>> ELSE <<acc>>) \o split(Tail(s), <<>>)
  ELSE split(Tail(s), Append(acc, s[1]))

\* the loop of getFilteredImageAttributes over attrList
RECURSIVE FilterAttrs(_,_)
FilterAttrs(fmt, attrList) ==
  IF attrList = <<>> THEN <<>>
  ELSE
  LET attr == stripWhiteSpace(Head(attrList))
      i == find(attr, <<":">>)
  IN IF i > 0
     THEN IF lower(stripWhiteSpace(SubSeq(attr, 1, i))) = fmt
          THEN SubSeq(attr, i+2, Len(attr))
          ELSE FilterAttrs(fmt, Tail(attrList))
     ELSE attr

\* getFilteredImageAttributes(fmt,attrs)
getFilteredImageAttributes(fmt, attrs) == FilterAttrs(fmt, split(attrs, <<>>))

\* findFileDef(Doxygen::imageNameLinkedMap,link,ambig)!=0
findFileDef(link) == FALSE

\* FileInfo(path).exists() && isReadable()
fileReadable(path) == FALSE

-----------------------------------------------------------------------------
(* m_linkRefs: the entries in insertion order, at most one per key *)

hasLinkRef(linkRefs, key) == \E k \in 1..Len(linkRefs) : linkRefs[k].id = key
findLinkRef(linkRefs, key) ==
  linkRefs[CHOOSE k \in 1..Len(linkRefs) : linkRefs[k].id = key]

\* an insert that replaces the entry of a key already present
insertLinkRef_assign(linkRefs, id, link, title) ==
  IF hasLinkRef(linkRefs, lower(id))
  THEN [k \in 1..Len(linkRefs) |->
          IF linkRefs[k].id = lower(id)
          THEN [id |-> lower(id), link |-> link, title |-> title]
          ELSE linkRefs[k]]
  ELSE Append(linkRefs, [id |-> lower(id), link |-> link, title |-> title])

\* m_linkRefs.insert({id.lower().str(),LinkRef(link,title)})
insertLinkRef(linkRefs, id, link, title) ==
  IF hasLinkRef(linkRefs, lower(id)) THEN linkRefs
  ELSE Append(linkRefs, [id |-> lower(id), link |-> link, title |-> title])

-----------------------------------------------------------------------------
(* processLink *)

\* is there non-whitespace before data within two newlines
RECURSIVE InlineBefore(_,_,_,_,_)
InlineBefore(buf, p, pos, offset, numNLsNeeded) ==
  IF pos >= -offset /\ numNLsNeeded > 0
  THEN IF At(buf, p+pos) = NL
       THEN InlineBefore(buf, p, pos-1, offset, numNLsNeeded-1)
       ELSE IF At(buf, p+pos) # SP THEN TRUE
       ELSE InlineBefore(buf, p, pos-1, offset, numNLsNeeded)
  ELSE FALSE

\* is there non-whitespace from pos on within two newlines
RECURSIVE InlineAfter(_,_,_,_,_)
InlineAfter(buf, p, pos, size, numNLsNeeded) ==
  IF pos < size /\ numNLsNeeded > 0
  THEN IF At(buf, p+pos) = NL
       THEN InlineAfter(buf, p, pos+1, size, numNLsNeeded-1)
       ELSE IF At(buf, p+pos) # SP THEN TRUE
       ELSE InlineAfter(buf, p, pos+1, size, numNLsNeeded)
  ELSE FALSE

\* find the matching closing bracket; fail is the `return 0` inside the loop
RECURSIVE BracketScan(_,_,_,_,_,_,_,_)
BracketScan(buf, p, size, i, level, nl, open, close) ==
  IF ~(i < size) THEN [i |-> i, level |-> level, nl |-> nl, fail |-> FALSE]
  ELSE IF At(buf, p+i-1) = "\\"
  THEN BracketScan(buf, p, size, i+1, level, nl, open, close)
  ELSE IF At(buf, p+i) = open
  THEN BracketScan(buf, p, size, i+1, level+1, nl, open, close)
  ELSE IF At(buf, p+i) = close
  THEN IF level-1 <= 0
       THEN [i |-> i, level |-> level-1, nl |-> nl, fail |-> FALSE]
       ELSE BracketScan(buf, p, size, i+1, level-1, nl, open, close)
  ELSE IF At(buf, p+i) = NL
  THEN IF nl+1 > 1
       THEN [i |-> i, level |-> level, nl |-> nl+1, fail |-> TRUE]
       ELSE BracketScan(buf, p, size, i+1, level, nl+1, open, close)
  ELSE BracketScan(buf, p, size, i+1, level, nl, open, close)

\* the scan over the target of an inline link
RECURSIVE ParenScan(_,_,_,_,_,_)
ParenScan(buf, p, size, i, braceCount, nl) ==
  IF i < size /\ At(buf, p+i) \notin {"'", "\""} /\ braceCount > 0
  THEN IF At(buf, p+i) = NL
       THEN IF nl+1 > 1 THEN [i |-> i, nl |-> nl+1, fail |-> TRUE]
            ELSE ParenScan(buf, p, size, i+1, braceCount, nl+1)
       ELSE IF At(buf, p+i) = "("
       THEN ParenScan(buf, p, size, i+1, braceCount+1, nl)
       ELSE IF At(buf, p+i) = ")"
       THEN ParenScan(buf, p, size, IF braceCount-1 > 0 THEN i+1 ELSE i,
                      braceCount-1, nl)
       ELSE ParenScan(buf, p, size, i+1, braceCount, nl)
  ELSE [i |-> i, nl |-> nl, fail |-> FALSE]

\* the scan over the title of an inline link, up to past its closing quote
RECURSIVE TitleScan(_,_,_,_,_,_)
TitleScan(buf, p, size, i, c, nl) ==
  IF ~(i < size) THEN [i |-> i, nl |-> nl, fail |-> FALSE]
  ELSE IF At(buf, p+i) = NL
  THEN IF nl > 1 THEN [i |-> i, nl |-> nl, fail |-> TRUE]
       ELSE TitleScan(buf, p, size, i+1, c, nl+1)
  ELSE IF At(buf, p+i) = "\\" THEN TitleScan(buf, p, size, i+2, c, nl)
  ELSE IF At(buf, p+i) = c THEN [i |-> i+1, nl |-> nl, fail |-> FALSE]
  ELSE TitleScan(buf, p, size, i+1, c, nl)

\* after the title: spaces, then the closing bracket; -1 for anything else
RECURSIVE AfterTitle(_,_,_,_)
AfterTitle(buf, p, size, i) ==
  IF ~(i < size) THEN i
  ELSE IF At(buf, p+i) = SP THEN AfterTitle(buf, p, size, i+1)
  ELSE IF At(buf, p+i) = ")" THEN i
  ELSE -1

RECURSIVE SkipBackWhile(_,_,_,_)
SkipBackWhile(buf, k, lim, S) ==
  IF k > lim /\ At(buf, k) \in S THEN SkipBackWhile(buf, k-1, lim, S) ELSE k

\* the scan over the label of a reference link
RECURSIVE RefScan(_,_,_,_,_)
RefScan(buf, p, size, i, nl) ==
  IF i < size /\ At(buf, p+i) # "]"
  THEN IF At(buf, p+i) = NL /\ nl+1 > 1
       THEN [i |-> i, nl |-> nl+1, fail |-> TRUE]
       ELSE RefScan(buf, p, size, i+1,
                    IF At(buf, p+i) = NL THEN nl+1 ELSE nl)
  ELSE [i |-> i, nl |-> nl, fail |-> FALSE]

\* what the three forms of a link hand to the output part
NoTarget == [ok |-> FALSE, i |-> 0, link |-> <<>>, title |-> <<>>,
             explicitTitle |-> FALSE, isToc |-> FALSE, nl |-> 0]
Target(i, link, title, explicitTitle, isToc, nl) ==
  [ok |-> TRUE, i |-> i, link |-> link, title |-> title,
   explicitTitle |-> explicitTitle, isToc |-> isToc, nl |-> nl]

\* LinkInline from the value of s on
LinkInline_s(buf, p, size, uriFormat, linkStart, s) ==
  LET link0 == stripWhiteSpace(Frag(buf, p+linkStart, s.i-linkStart))
      link == IF uriFormat /\ link0[Len(link0)] = ">"
              THEN SubSeq(link0, 1, Len(link0)-1) ELSE link0
  IN IF s.fail \/ s.i >= size \/ At(buf, p+s.i) = NL \/ link0 = <<>>
     THEN NoTarget
     ELSE IF At(buf, p+s.i) \in {"'", "\""}
     THEN LET c == At(buf, p+s.i)
              titleStart == s.i+1
              t == TitleScan(buf, p, size, titleStart, c, 0)
              titleEnd == SkipBackWhile(buf, p+t.i-1, p+titleStart, {SP}) - p
              e == AfterTitle(buf, p, size, t.i)
          IN IF t.fail \/ t.i >= size \/ At(buf, p+titleEnd) # c \/ e = -1
             THEN NoTarget
             ELSE Target(e+1, link,
                         Frag(buf, p+titleStart, titleEnd-titleStart),
                         TRUE, FALSE, s.nl + t.nl)
     ELSE Target(s.i+1, link, <<>>, FALSE, FALSE, s.nl)

\* inline link: data[i]=='('
LinkInline(buf, p, size, i) ==
  LET i0 == SkipIn(buf, p+i+1, p+size, {SP}) - p
      uriFormat == i0 < size /\ At(buf, p+i0) = "<"
      linkStart == IF uriFormat THEN i0+1 ELSE i0
      s == ParenScan(buf, p, size, linkStart, 1, 0)
  IN LinkInline_s(buf, p, size, uriFormat, linkStart, s)

\* reference link: data[i]=='['
LinkReference(buf, p, size, i, content, cx) ==
  LET linkStart == i+1
      s == RefScan(buf, p, size, linkStart, 0)
      link0 == stripWhiteSpace(Frag(buf, p+linkStart, s.i-linkStart))
      link == IF link0 = <<>> THEN content ELSE link0
      link_lower == lower(link)
  IN IF s.fail \/ s.i >= size THEN NoTarget
     ELSE IF hasLinkRef(cx.linkRefs, link_lower)
     THEN LET lr == findLinkRef(cx.linkRefs, link_lower)
          IN Target(s.i+1, lr.link, lr.title, FALSE, FALSE, s.nl)
     ELSE NoTarget

\* minimal link ref notation [some id]
LinkMinimal(contentEnd, content, cx) ==
  LET content_lower == lower(content)
  IN IF hasLinkRef(cx.linkRefs, content_lower)
     THEN LET lr == findLinkRef(cx.linkRefs, content_lower)
          IN Target(contentEnd+1, lr.link, lr.title, TRUE, FALSE, 0)
     ELSE IF content = <<"T","O","C">>
     THEN Target(contentEnd+1, <<>>, <<>>, FALSE, TRUE, 0)
     ELSE NoTarget

\* escapeDoubleQuotes: a backslash before every quote not already escaped
RECURSIVE EscapeQuotes(_,_,_)
EscapeQuotes(s, k, pch) ==
  IF k > Len(s) THEN <<>>
  ELSE (IF s[k] = "\"" /\ pch # "\\" THEN <<"\\", s[k]>> ELSE <<s[k]>>)
       \o EscapeQuotes(s, k+1, s[k])
escapeDoubleQuotes(s) == EscapeQuotes(s, 1, NUL)

writeMarkdownImage(fmt, inline_img, explicitTitle, title, content, link,
                   attrs, fd) ==
  LET attributes == getFilteredImageAttributes(fmt, attrs)
  IN <<"@","i","m","a","g","e">>
     \o (IF inline_img THEN <<"{","i","n","l","i","n","e","}">> ELSE <<>>)
     \o <<" ">> \o fmt \o <<" ">>
     \o SubSeq(link, (IF fd THEN 0 ELSE 5) + 1, Len(link))
     \o (IF ~explicitTitle /\ content # <<>>
         THEN <<" ","\"">> \o escapeDoubleQuotes(content) \o <<"\"">>
         ELSE IF (content = <<>> \/ explicitTitle) /\ title # <<>>
         THEN <<" ","\"">> \o escapeDoubleQuotes(title) \o <<"\"">>
         ELSE <<" ">>)
     \o (IF attributes # <<>> THEN <<" ">> \o attributes \o <<" ">> ELSE <<>>)
     \o <<"\\","i","l","i","n","e","b","r"," ">>

\* the output part of processLink for an ordinary (non image, non TOC) link
LinkOut(i, link, title, content, explicitTitle, nlTotal, cx) ==
  LET viaRef == find(link, <<"@","r","e","f"," ">>) # -1 \/ find(link, <<"\\","r","e","f"," ">>) # -1
  IN IF viaRef \/ (isMarkdownFileName(link) /\ ~isURL(link))
     THEN [ret |-> i,
           out |-> (IF ~viaRef THEN <<"@","r","e","f"," ">> ELSE <<>>)
                   \o link \o <<" ","\"">>
                   \o (IF explicitTitle /\ title # <<>>
                       THEN substitute(title, <<"\"">>, <<"&","q","u","o","t",";">>)
                       ELSE substitute(content, <<"\"">>, <<"&","q","u","o","t",";">>))
                   \o <<"\"">>]
     ELSE IF find(link, <<"/">>) # -1 \/ find(link, <<".">>) # -1
             \/ find(link, <<"#">>) # -1
     THEN IF link[1] = "#"
          THEN [ret |-> i,
                out |-> <<"@","r","e","f"," ">> \o Tail(link) \o <<" ","\"">>
                        \o substitute(simplifyWhiteSpace(content),
                                      <<"\"">>, <<"&","q","u","o","t",";">>)
                        \o <<"\"">>]
          ELSE LET inner == substitute(simplifyWhiteSpace(content),
                                       <<"\"">>, <<"\\", "\"">>)
               IN [ret |-> i,
                   out |-> <<"<","a"," ","h","r","e","f","=","\"">> \o link \o <<"\"">> \o Rep(NL, nlTotal)
                           \o (IF title # <<>>
                               THEN <<" ","t","i","t","l","e","=","\"">>
                                    \o substitute(simplifyWhiteSpace(title),
                                                  <<"\"">>, <<"&","q","u","o","t",";">>)
                                    \o <<"\"">>
                               ELSE <<>>)
                           \o <<" ">> \o externalLinkTarget \o <<">">>
                           \o processInline(inner, 0, Len(inner), cx)
                           \o <<"<","/","a",">">>]
     ELSE R0

\* the formats an image is written for, in the order of the calls
ImageFormats ==
  << <<"h","t","m","l">>, <<"l","a","t","e","x">>, <<"r","t","f">>,
     <<"d","o","c","b","o","o","k">>, <<"x","m","l">> >>

RECURSIVE writeMarkdownImages(_,_,_,_,_,_,_,_)
writeMarkdownImages(fmts, inline_img, explicitTitle, title, content, link,
                    attrs, fd) ==
  IF fmts = <<>> THEN <<>>
  ELSE writeMarkdownImage(Head(fmts), inline_img, explicitTitle, title,
                          content, link, attrs, fd)
       \o writeMarkdownImages(Tail(fmts), inline_img, explicitTitle, title,
                              content, link, attrs, fd)

\* processLink from the value of a on
processLink_a(buf, p, size, cx, isImageLink, inlineBefore, b, content, nl2,
              t, j, hasAttr, a) ==
  LET attributes == IF hasAttr THEN Frag(buf, p+j+1, a.i-(j+1))
                    ELSE <<>>
      i == IF hasAttr THEN a.i+1 ELSE t.i
      nlTotal == b.nl + nl2 + t.nl + (IF hasAttr THEN a.nl ELSE 0)
      isImageInline == inlineBefore \/ InlineAfter(buf, p, i, size, 2)
  IN IF hasAttr /\ (a.fail \/ a.i >= size) THEN R0
     ELSE IF t.isToc
     THEN [ret |-> i,
           out |-> IF cx.toc > 0 /\ cx.toc <= 5
                   THEN <<"@","t","a","b","l","e","o","f","c","o","n","t","e","n","t","s","{","h","t","m","l",":">> \o setNum(cx.toc) \o <<"}">>
                   ELSE <<>>]
     ELSE IF isImageLink
     THEN IF \/ find(t.link, <<"@","r","e","f"," ">>) # -1
             \/ find(t.link, <<"\\","r","e","f"," ">>) # -1
             \/ findFileDef(t.link)
          THEN [ret |-> i,
                out |-> writeMarkdownImages(ImageFormats, isImageInline,
                          t.explicitTitle, t.title, content, t.link,
                          attributes, findFileDef(t.link))]
          ELSE [ret |-> i,
                out |-> <<"<","i","m","g"," ","s","r","c","=","\"">> \o t.link \o <<"\""," ","a","l","t","=","\"">> \o content
                        \o <<"\"">>
                        \o (IF t.title # <<>>
                            THEN <<" ","t","i","t","l","e","=","\"">>
                                 \o substitute(
                                      simplifyWhiteSpace(t.title),
                                      <<"\"">>, <<"&","q","u","o","t",";">>)
                                 \o <<"\"">>
                            ELSE <<>>)
                        \o <<"/",">">>]
     ELSE LinkOut(i, t.link, t.title, content, t.explicitTitle,
                  nlTotal, cx)

\* processLink from the value of t on
processLink_t(buf, p, size, cx, isImageLink, inlineBefore, b, content, nl2,
              t) ==
  IF ~t.ok THEN R0
  ELSE
  LET j == SkipIn(buf, p+t.i, p+size, {SP}) - p
      hasAttr == isImageLink /\ j < size /\ At(buf, p+j) = "{"
      a == BracketScan(buf, p, size, j+1, b.level, 0, "{", "}")
  IN processLink_a(buf, p, size, cx, isImageLink, inlineBefore, b, content,
         nl2, t, j, hasAttr, a)

\* processLink from the value of i2 on
processLink_i2(buf, p, size, cx, isImageLink, inlineBefore, b, contentEnd,
               content, i1, hasNl, i2) ==
  LET whiteSpace == i1 > contentEnd+1 \/ hasNl
      nl2 == IF hasNl THEN 1 ELSE 0
  IN IF isImageLink /\ (size < 2 \/ At(buf, p+1) # "[") THEN R0
     ELSE IF b.fail \/ b.i >= size THEN R0
     ELSE IF ~isImageLink /\ content = <<>> THEN R0
     ELSE IF whiteSpace /\ i2 < size /\ At(buf, p+i2) \in {"(", "["} THEN R0
     ELSE
     LET t == IF i2 < size /\ At(buf, p+i2) = "("
              THEN LinkInline(buf, p, size, i2)
              ELSE IF i2 < size /\ At(buf, p+i2) = "["
              THEN LinkReference(buf, p, size, i2, content, cx)
              ELSE IF i2 < size /\ At(buf, p+i2) # ":" /\ content # <<>>
              THEN LinkMinimal(contentEnd, content, cx)
              ELSE NoTarget
     IN processLink_t(buf, p, size, cx, isImageLink, inlineBefore, b,
            content, nl2, t)

\* processLink from the value of b on
processLink_b(buf, p, size, cx, isImageLink, inlineBefore, contentStart, b) ==
  LET contentEnd == b.i
      content == Frag(buf, p+contentStart, contentEnd-contentStart)
      i1 == SkipIn(buf, p+contentEnd+1, p+size, {SP}) - p
      hasNl == i1 < size /\ At(buf, p+i1) = NL
      i2 == IF hasNl THEN SkipIn(buf, p+i1+1, p+size, {SP}) - p ELSE i1
  IN processLink_i2(buf, p, size, cx, isImageLink, inlineBefore, b,
         contentEnd, content, i1, hasNl, i2)

processLink(buf, p, offset, size, cx) ==
  LET isImageLink == At(buf, p) = "!"
      inlineBefore == isImageLink /\ InlineBefore(buf, p, -1, offset, 2)
      contentStart == IF isImageLink THEN 2 ELSE 1
      b == BracketScan(buf, p, size, contentStart, 1, 0, "[", "]")
  IN processLink_b(buf, p, size, cx, isImageLink, inlineBefore, contentStart,
         b)

-----------------------------------------------------------------------------
(* processInline *)

\* the characters m_actions has a handler for
ActionChars == {"_", "*", "~", BT, "\\", "@", "[", "!", "<", "-", "\""}

\* action(data+i,i,size-i) for the handler registered for data[i]
action(buf, p, i, size, cx) ==
  LET c == At(buf, p+i)
  IN CASE c \in {"_", "*", "~"} -> processEmphasis(buf, p+i, i, size-i, cx)
       [] c = BT -> processCodeSpan(buf, p+i, size-i)
       [] c \in {"\\", "@"} -> processSpecialCommand(buf, p+i, i, size-i)
       [] c \in {"[", "!"} -> processLink(buf, p+i, i, size-i, cx)
       [] c = "<" -> processHtmlTag(buf, p+i, i, size-i)
       [] c = "-" -> processNmdash(buf, p+i, i, size-i)
       [] c = "\"" -> processQuoted(buf, p+i, size-i)

RECURSIVE InlineStep(_,_,_,_,_,_)
\* InlineStep from the value of r on
\* a loop that goes past the character of a handler that returned 0 without
\* leaving it to be copied
InlineStep_r_dropsTrigger(end1, plain, r) ==
  IF r.ret <= 0
  THEN [out |-> plain \o r.out, i |-> end1+1-r.ret,
        end |-> end1+1-r.ret, done |-> FALSE]
  ELSE [out |-> plain \o r.out, i |-> end1+r.ret,
        end |-> end1+r.ret, done |-> FALSE]

\* processInline: end = action(data+i,i,size-i) and the update of i and end
InlineStep_r(end1, plain, r) ==
  IF r.ret <= 0
  THEN [out |-> plain \o r.out, i |-> end1,
        end |-> end1+1-r.ret, done |-> FALSE]
  ELSE [out |-> plain \o r.out, i |-> end1+r.ret,
        end |-> end1+r.ret, done |-> FALSE]

\* one iteration of the loop of processInline, from the state (i, end):
\* the text appended to m_out and the next (i, end); done when the loop is left
InlineStep(buf, p, size, i, end, cx) ==
  LET end1 == SkipNotIn(buf, p+end, p+size, ActionChars) - p
      plain == Frag(buf, p+i, end1-i)
  IN IF end1 >= size
     THEN [out |-> plain, i |-> i, end |-> end1, done |-> TRUE]
     ELSE LET r == action(buf, p, end1, size, cx)
          IN InlineStep_r(end1, plain, r)

RECURSIVE InlineLoop(_,_,_,_,_,_)
\* InlineLoop from the value of s on
InlineLoop_s(buf, p, size, cx, s) ==
  IF s.done THEN s.out
  ELSE s.out \o InlineLoop(buf, p, size, s.i, s.end, cx)

InlineLoop(buf, p, size, i, end, cx) ==
  IF ~(i < size) THEN <<>>
  ELSE LET s == InlineStep(buf, p, size, i, end, cx)
       IN InlineLoop_s(buf, p, size, cx, s)

\* what processInline(data,size) appends to m_out
processInline(buf, p, size, cx) == InlineLoop(buf, p, size, 0, 0, cx)

-----------------------------------------------------------------------------
(* Line detectors of the block pass *)

\* qstrncmp(data+k,t,Len(t))==0
StrNCmpEq(buf, k, t) == \A j \in 1..Len(t) : At(buf, k+j-1) = t[j]

\* isNewline(data) for data = buf + k
isNewline(buf, k) ==
  IF At(buf, k) = NL THEN 1
  ELSE IF At(buf, k) = "\\" /\ StrNCmpEq(buf, k+1, <<"i","l","i","n","e","b","r">>)
  THEN (IF At(buf, k+8) = SP THEN 9 ELSE 8)
  ELSE 0

RECURSIVE FindEndOfLineLoop(_,_,_,_,_)
\* FindEndOfLineLoop from the value of e on
FindEndOfLineLoop_e(buf, p, size, end, nb, endBlockName, l, e) ==
  IF endBlockName = <<>>
  THEN FindEndOfLineLoop(buf, p, size, end+1, nb)
  ELSE FindEndOfLineLoop(buf, p, size,
         IF e < size-l-1 THEN e+l+2 ELSE e, nb)

\* the loop of findEndOfLine from the state (end, nb)
FindEndOfLineLoop(buf, p, size, end, nb) ==
  IF end <= size /\ isNewline(buf, p+end-1) = 0
  THEN
    LET c == At(buf, p+end-1)
        notEscaped == end <= 1 \/ At(buf, p+end-2) \notin {"\\", "@"}
    IN IF c \in {"\\", "@"} /\ notEscaped
       THEN LET endBlockName ==
                  isBlockCommand(buf, p+end-1, end-1, size-(end-1))
                l == Len(endBlockName)
                e == FindEndBlock(buf, p, end+1, size-l-1, endBlockName)
            IN FindEndOfLineLoop_e(buf, p, size, end, nb, endBlockName, l, e)
       ELSE IF nb = 0 /\ c = "<" /\ end < size-6 /\ notEscaped
       THEN IF /\ toLower(At(buf, p+end)) = "p"
               /\ toLower(At(buf, p+end+1)) = "r"
               /\ toLower(At(buf, p+end+2)) = "e"
               /\ At(buf, p+end+3) \in {">", SP}
            THEN end + processHtmlTagWrite(buf, p+end-1, end-1, size-end+1,
                                           FALSE).ret + 2
            ELSE FindEndOfLineLoop(buf, p, size, end+1, nb)
       ELSE IF c = BT
       THEN LET e == SkipIn(buf, p+end-1, p+size, {BT}) - p + 1
                n == e - end
            IN FindEndOfLineLoop(buf, p, size, e,
                 IF nb = 0 THEN n ELSE IF n = nb THEN 0 ELSE nb)
       ELSE FindEndOfLineLoop(buf, p, size, end+1, nb)
  ELSE IF end <= size THEN end + isNewline(buf, p+end-1) - 1
  ELSE end

\* findEndOfLine(data,size,pi,i,end): the new value of end
findEndOfLine(buf, p, size, i) == FindEndOfLineLoop(buf, p, size, i+1, 0)

isEmptyLine(buf, p, size) ==
  LET i == SkipIn(buf, p, p+size, {SP}) - p
  IN i >= size \/ At(buf, p+i) = NL

isLiTag(buf, k) ==
  /\ At(buf, k) = "<"
  /\ At(buf, k+1) \in {"l", "L"}
  /\ At(buf, k+2) \in {"i", "I"}
  /\ At(buf, k+3) = ">"

\* the inner loop over an ordered list marker: the j it stops at with a valid
\* marker, or -1
RECURSIVE OrderedMarker(_,_,_,_)
OrderedMarker(buf, p, size, j) ==
  IF j < size /\ At(buf, p+j) \in Digit \cup {"."}
  THEN IF At(buf, p+j) = "."
       THEN (IF j < size-1 /\ At(buf, p+j+1) = SP THEN j ELSE -1)
       ELSE OrderedMarker(buf, p, size, j+1)
  ELSE -1

RECURSIVE IndentLoop(_,_,_,_,_,_,_,_)
\* IndentLoop from the value of st on
IndentLoop_st(buf, p, size, isDigit1, isLi1, st) ==
  IF At(buf, p+st[1]) # SP /\ ~st[3] THEN st[2]
  ELSE IndentLoop(buf, p, size, st[1]+1, st[2]+1, isDigit1, isLi1, st[3])

\* the loop of computeIndentExcludingListMarkers; isDigit and isLi keep the
\* value of their last assignment in the loop condition
IndentLoop(buf, p, size, i, indent, isDigit, isLi, listMarkerSkipped) ==
  LET c == At(buf, p+i)
      early == c = SP
               \/ (~listMarkerSkipped
                   /\ (c \in {"+", "-", "*"}
                       \/ (c = "#" /\ i > 0 /\ At(buf, p+i-1) = "-")))
      evalDigit == ~early /\ ~listMarkerSkipped
      isDigit1 == IF evalDigit THEN c \in (Digit \ {"0"}) ELSE isDigit
      evalLi == evalDigit /\ ~isDigit1
      isLi1 == IF evalLi THEN i < size-3 /\ isLiTag(buf, p+i) ELSE isLi
      cond == i < size /\ (early \/ (evalDigit /\ (isDigit1 \/ isLi1)))
  IN IF ~cond THEN indent
     ELSE
     LET j == OrderedMarker(buf, p, size, i+1)
         \* (i, indent, listMarkerSkipped) after the if-else chain
         st == IF isDigit1
               THEN (IF j # -1 THEN <<j+1, indent + j+1-i, TRUE>>
                     ELSE <<i, indent, listMarkerSkipped>>)
               ELSE IF isLi1 THEN <<i+3, indent+3, TRUE>>
               ELSE IF /\ c = "-" /\ i < size-2
                       /\ At(buf, p+i+1) = "#" /\ At(buf, p+i+2) = SP
               THEN <<i+1, indent+1, TRUE>>
               ELSE IF c # SP /\ i < size-1 /\ At(buf, p+i+1) = SP
               THEN <<i, indent, TRUE>>
               ELSE <<i, indent, listMarkerSkipped>>
     IN IndentLoop_st(buf, p, size, isDigit1, isLi1, st)

computeIndentExcludingListMarkers(buf, p, size) ==
  IndentLoop(buf, p, size, 0, 0, FALSE, FALSE, FALSE)

isListMarker(buf, p, size) ==
  LET normalIndent == SkipIn(buf, p, p+size, {SP}) - p
      listIndent == computeIndentExcludingListMarkers(buf, p, size)
  IN IF listIndent > normalIndent THEN listIndent ELSE 0

RECURSIVE EndOfListScan(_,_,_,_,_)
EndOfListScan(buf, p, size, i, dots) ==
  IF ~(i < size) THEN dots = 1
  ELSE IF At(buf, p+i) = "." THEN EndOfListScan(buf, p, size, i+1, dots+1)
  ELSE IF At(buf, p+i) = NL THEN dots = 1
  ELSE IF At(buf, p+i) \notin {SP, "\t"} THEN FALSE
  ELSE EndOfListScan(buf, p, size, i+1, dots)

isEndOfList(buf, p, size) == EndOfListScan(buf, p, size, 0, 0)

\* an underline test that takes the level back to 0 at any line of = signs,
\* a well-formed underline or not
isHeaderline_adjustsAlways(buf, p, size, allowAdjustLevel, indentLevel) ==
  LET i0 == SkipIn(buf, p, p+size, {SP})
      ch == At(buf, i0)
      i1 == SkipIn(buf, i0, p+size, {ch})
      c == i1 - i0
      i2 == SkipIn(buf, i1, p+size, {SP}) - p
      under == c > 1 /\ (i2 >= size \/ At(buf, p+i2) = NL)
  IN IF ch = "="
     THEN LET level == IF under THEN 1 ELSE 0
              lvl == IF allowAdjustLevel /\ indentLevel = -1
                     THEN 0 ELSE indentLevel
          IN [ret |-> lvl + level, indentLevel |-> lvl]
     ELSE IF ch = "-"
     THEN [ret |-> IF under THEN indentLevel+2 ELSE 0,
           indentLevel |-> indentLevel]
     ELSE [ret |-> 0, indentLevel |-> indentLevel]

\* isHeaderline: the level returned and the new m_indentLevel
isHeaderline(buf, p, size, allowAdjustLevel, indentLevel) ==
  LET i0 == SkipIn(buf, p, p+size, {SP})
      ch == At(buf, i0)
      i1 == SkipIn(buf, i0, p+size, {ch})
      c == i1 - i0
      i2 == SkipIn(buf, i1, p+size, {SP}) - p
      under == c > 1 /\ (i2 >= size \/ At(buf, p+i2) = NL)
  IN IF ch = "="
     THEN LET level == IF under THEN 1 ELSE 0
              lvl == IF allowAdjustLevel /\ level = 1 /\ indentLevel = -1
                     THEN 0 ELSE indentLevel
          IN [ret |-> lvl + level, indentLevel |-> lvl]
     ELSE IF ch = "-"
     THEN [ret |-> IF under THEN indentLevel+2 ELSE 0,
           indentLevel |-> indentLevel]
     ELSE [ret |-> 0, indentLevel |-> indentLevel]

isBlockQuote(buf, p, size, indent) ==
  LET i0 == SkipIn(buf, p, p+size, {SP}) - p
      i1 == SkipIn(buf, p+i0, p+size, {">", SP}) - p
      level == Cardinality({k \in i0..i1-1 : At(buf, p+k) = ">"})
  IN IF i0 < indent + codeBlockIndent
     THEN \/ (level > 0 /\ i1 < size
              /\ (At(buf, p+i1-1) = SP \/ At(buf, p+i1) = NL))
          \/ level > 1
     ELSE FALSE

RECURSIVE SkipBackNot(_,_,_,_)
SkipBackNot(buf, k, lim, c) ==
  IF k > lim /\ At(buf, k) # c THEN SkipBackNot(buf, k-1, lim, c) ELSE k

NoLinkRef == [ret |-> 0, refid |-> <<>>, link |-> <<>>, title |-> <<>>]

\* isLinkRef(data,size,refid,link,title)
LinkRefFound(r, refid, link, title) ==
  [ret |-> r, refid |-> refid, link |-> link, title |-> title]

\* isLinkRef from the value of i8 on
isLinkRef_i8(buf, p, lim, i0, i1, refid, i3, linkStart, linkEnd, link, eol0,
             i7, hasTitle, c, titleStart, i8) ==
  LET eol == IF hasTitle THEN i8 - p ELSE eol0
      end == SkipBackNot(buf, i8-1, titleStart, c)
      title == IF hasTitle /\ end > titleStart
               THEN Frag(buf, titleStart, end-titleStart) ELSE <<>>
      i9 == SkipIn(buf, i8, lim, {SP})
  IN IF i0 >= lim \/ At(buf, i0) # "[" THEN NoLinkRef
     ELSE IF i1 >= lim \/ At(buf, i1) # "]" THEN NoLinkRef
     ELSE IF refid = <<>> THEN NoLinkRef
     ELSE IF i1+1 >= lim \/ At(buf, i1+1) # ":" THEN NoLinkRef
     ELSE IF i3 >= lim THEN NoLinkRef
     ELSE IF linkStart = linkEnd THEN NoLinkRef
     ELSE IF i7 >= lim THEN LinkRefFound(i7 - p, refid, link, title)
     ELSE IF i9 >= lim THEN LinkRefFound(i9 - p, refid, link, title)
     ELSE IF eol # 0 THEN LinkRefFound(eol, refid, link, title)
     ELSE NoLinkRef

\* isLinkRef from the value of link on
isLinkRef_link(buf, p, lim, i0, i1, refid, i3, linkStart, linkEnd, i5,
               link) ==
  LET i6 == SkipIn(buf, i5, lim, {SP})
      hasEol == i6 < lim /\ At(buf, i6) = NL
      eol0 == IF hasEol THEN i6 - p ELSE 0
      i7 == IF hasEol THEN SkipIn(buf, i6+1, lim, {SP}) ELSE i6
      c0 == At(buf, i7)
      hasTitle == c0 \in {"'", "\"", "("}
      c == IF c0 = "(" THEN ")" ELSE c0
      titleStart == i7+1
      i8 == IF hasTitle THEN SkipNotIn(buf, titleStart, lim, {NL}) ELSE i7
  IN isLinkRef_i8(buf, p, lim, i0, i1, refid, i3, linkStart, linkEnd, link,
         eol0, i7, hasTitle, c, titleStart, i8)

\* isLinkRef from the value of i3 on
isLinkRef_i3(buf, p, lim, i0, i1, refid, i3) ==
  LET linkStart == IF i3 < lim /\ At(buf, i3) = "<" THEN i3+1 ELSE i3
      linkEnd == SkipNotIn(buf, linkStart, lim, {SP, NL})
      i4 == IF linkEnd < lim /\ At(buf, linkEnd) = ">" THEN linkEnd+1
            ELSE linkEnd
      link0 == Frag(buf, linkStart, linkEnd-linkStart)
      isRef == link0 \in {<<"@","r","e","f">>, <<"\\","r","e","f">>}
      i5 == IF isRef THEN SkipNotIn(buf, i4, lim, {NL, "\""}) ELSE i4
      link == IF isRef THEN link0 \o Frag(buf, i4, i5-i4) ELSE link0
  IN isLinkRef_link(buf, p, lim, i0, i1, refid, i3, linkStart, linkEnd, i5,
         link)

isLinkRef(buf, p, size) ==
  LET lim == p+size
      i0 == SkipIn(buf, p, lim, {SP})
      refIdStart == i0+1
      i1 == SkipNotIn(buf, refIdStart, lim, {NL, "]"})
      refid == Frag(buf, refIdStart, i1-refIdStart)
      i2 == SkipIn(buf, i1+2, lim, {SP})
      i3 == IF i2 < lim /\ At(buf, i2) = NL
            THEN SkipIn(buf, i2+1, lim, {SP}) ELSE i2
  IN isLinkRef_i3(buf, p, lim, i0, i1, refid, i3)

isHRuler(buf, p, size0) ==
  LET size == IF size0 > 0 /\ At(buf, p+size0-1) = NL THEN size0-1 ELSE size0
      i == SkipIn(buf, p, p+size, {SP}) - p
      c == At(buf, p+i)
      n == Cardinality({k \in i..size-1 : At(buf, p+k) = c})
  IN /\ i < size
     /\ c \in {"*", "-", "_"}
     /\ \A k \in i..size-1 : At(buf, p+k) \in {c, SP}
     /\ n >= 3

-----------------------------------------------------------------------------
(* extractTitleId, isAtxHeader, writeOneLineHeaderOrRuler *)

\* the classes \a and \w of the regular expression of extractTitleId
ReAlpha == Lower \cup Upper \cup HighByte
ReWord == ReAlpha \cup Digit \cup {"_"}

\* does {#(\a[\w-]*)}\s*$ match the title at 0-based position k
TitleIdEnd(title, k) == SkipIn(title, k+3, Len(title), ReWord \cup {"-"})
TitleIdAt(title, k) ==
  /\ At(title, k) = "{"
  /\ At(title, k+1) = "#"
  /\ At(title, k+2) \in ReAlpha
  /\ At(title, TitleIdEnd(title, k)) = "}"
  /\ \A j \in TitleIdEnd(title, k)+1 .. Len(title)-1 : IsSpace(At(title, j))

\* extractTitleId from the value of k on
extractTitleId_k(title, autoIdNow, k) ==
  [id |-> Frag(title, k+2, TitleIdEnd(title, k) - (k+2)),
   title |-> SubSeq(title, 1, k),
   autoId |-> autoIdNow]

\* extractTitleId with a counter that is read but not stepped
extractTitleId_sameNumber(title, level, tocIncludeHeadings, autoIdNow) ==
  IF \E k \in 0..Len(title)-1 : TitleIdAt(title, k)
  THEN LET k == CHOOSE k \in 0..Len(title)-1 :
                  TitleIdAt(title, k)
                  /\ \A j \in 0..k-1 : ~TitleIdAt(title, j)
       IN extractTitleId_k(title, autoIdNow, k)
  ELSE IF level > 0 /\ level <= tocIncludeHeadings
  THEN [id |-> <<"a","u","t","o","t","o","c","_","m","d">> \o setNum(autoIdNow),
        title |-> title,
        autoId |-> autoIdNow]
  ELSE [id |-> <<>>, title |-> title, autoId |-> autoIdNow]

\* extractTitleId(title,level): the id, the title left and the counter
extractTitleId(title, level, tocIncludeHeadings, autoIdNow) ==
  IF \E k \in 0..Len(title)-1 : TitleIdAt(title, k)
  THEN LET k == CHOOSE k \in 0..Len(title)-1 :
                  TitleIdAt(title, k)
                  /\ \A j \in 0..k-1 : ~TitleIdAt(title, j)
       IN extractTitleId_k(title, autoIdNow, k)
  ELSE IF level > 0 /\ level <= tocIncludeHeadings
  THEN [id |-> <<"a","u","t","o","t","o","c","_","m","d">> \o setNum(autoIdNow),
        title |-> title,
        autoId |-> autoIdNow + 1]
  ELSE [id |-> <<>>, title |-> title, autoId |-> autoIdNow]

RECURSIVE StripHashes(_)
StripHashes(h) ==
  IF h # <<>> /\ h[Len(h)] \in {"#", SP}
  THEN StripHashes(SubSeq(h, 1, Len(h)-1)) ELSE h

RECURSIVE SkipBackIn(_,_,_,_)
SkipBackIn(buf, k, lim, S) ==
  IF k > lim /\ At(buf, k-1) \in S THEN SkipBackIn(buf, k-1, lim, S) ELSE k

\* '#' characters counted by while (i<size && level<6 && data[i]=='#')
RECURSIVE HashRun(_,_,_,_)
HashRun(buf, i, lim, level) ==
  IF i < lim /\ level < 6 /\ At(buf, i) = "#"
  THEN HashRun(buf, i+1, lim, level+1) ELSE level

\* isAtxHeader from the value of t on
isAtxHeader_t(buf, allowAdjustLevel, indentLevel, autoIdNow, lim, i0, level,
              blanks, t) ==
  LET header == IF t.id # <<>> THEN StripHashes(t.title) ELSE t.title
      lvl == IF allowAdjustLevel /\ level = 1 /\ indentLevel = -1
             THEN 0 ELSE indentLevel
  IN IF i0 >= lim \/ At(buf, i0) # "#" \/ (level = 1 /\ blanks = 0)
     THEN [ret |-> 0, header |-> <<>>, id |-> <<>>,
           indentLevel |-> indentLevel, autoId |-> autoIdNow]
     ELSE [ret |-> level + lvl, header |-> header, id |-> t.id,
           indentLevel |-> lvl, autoId |-> t.autoId]

\* isAtxHeader(data,size,header,id,allowAdjustLevel) with the engine state
\* it reads and writes
isAtxHeader(buf, p, size, allowAdjustLevel, indentLevel, toc, autoIdNow) ==
  LET lim == p+size
      i0 == SkipIn(buf, p, lim, {SP})
      level == HashRun(buf, i0, lim, 0)
      i1 == i0 + level
      i2 == SkipIn(buf, i1, lim, {SP})
      blanks == i2 - i1
      end0 == SkipNotIn(buf, i2, lim, {NL})
      end == SkipBackIn(buf, end0, i2, {"#", SP})
      t == extractTitleId(Frag(buf, i2, end-i2), level, toc, autoIdNow)
  IN isAtxHeader_t(buf, allowAdjustLevel, indentLevel, autoIdNow, lim, i0,
         level, blanks, t)

hasLineBreak(buf, p, size) ==
  LET i == SkipNotIn(buf, p, p+size, {NL}) - p
      j == Cardinality({k \in 0..i-1 : At(buf, p+k) \notin {SP, "\t"}})
  IN IF i >= size \/ i < 2 THEN FALSE
     ELSE j > 0 /\ At(buf, p+i-1) = SP /\ At(buf, p+i-2) = SP

\* writeOneLineHeaderOrRuler from the value of h on
writeOneLineHeaderOrRuler_h(buf, p, size, h) ==
  LET level == h.ret
      hTag == <<"h">> \o setNum(level)
      tmpSize == IF At(buf, p+size-1) = NL THEN size-1 ELSE size
  IN IF level # 0
     THEN [out |->
             IF level < 5 /\ h.id # <<>>
             THEN (CASE level = 1 -> <<"@","s","e","c","t","i","o","n"," ">>
                     [] level = 2 -> <<"@","s","u","b","s","e","c","t","i","o","n"," ">>
                     [] level = 3 -> <<"@","s","u","b","s","u","b","s","e","c","t","i","o","n"," ">>
                     [] OTHER -> <<"@","p","a","r","a","g","r","a","p","h"," ">>)
                  \o h.id \o <<" ">> \o h.header \o <<NL>>
             ELSE (IF h.id # <<>>
                   THEN <<"\\","a","n","c","h","o","r"," ">> \o h.id \o <<"\\","i","l","i","n","e","b","r"," ">> ELSE <<>>)
                  \o <<"<">> \o hTag \o <<">">> \o h.header
                  \o <<"<","/">> \o hTag \o <<">",NL>>,
           indentLevel |-> h.indentLevel, autoId |-> h.autoId]
     ELSE [out |-> IF size > 0
                   THEN Frag(buf, p, tmpSize)
                        \o (IF hasLineBreak(buf, p, size) THEN <<"<","b","r",">">> ELSE <<>>)
                        \o (IF tmpSize # size THEN <<NL>> ELSE <<>>)
                   ELSE <<>>,
           indentLevel |-> h.indentLevel, autoId |-> h.autoId]

\* writeOneLineHeaderOrRuler: what it appends and the engine state it leaves
writeOneLineHeaderOrRuler(buf, p, size, indentLevel, toc, autoIdNow) ==
  IF isHRuler(buf, p, size)
  THEN [out |-> <<"<","h","r",">",NL>>, indentLevel |-> indentLevel, autoId |-> autoIdNow]
  ELSE
  LET h == isAtxHeader(buf, p, size, TRUE, indentLevel, toc, autoIdNow)
  IN writeOneLineHeaderOrRuler_h(buf, p, size, h)

-----------------------------------------------------------------------------
(* isCodeBlock, writeCodeBlock, writeFencedCodeBlock, writeBlockQuote *)

Max(a, b) == IF a > b THEN a ELSE b

\* n copies of the text t
RECURSIVE Rep2(_,_)
Rep2(t, n) == IF n <= 0 THEN <<>> ELSE t \o Rep2(t, n-1)

\* search back from data for the positions after up to three newlines;
\* leaves the i the loop ended with and nl_pos
RECURSIVE NlBack(_,_,_,_,_)
NlBack(buf, p, offset, i, nl_pos) ==
  IF i > 0 /\ Len(nl_pos) < 3
  THEN LET j == i-offset-1
           nl_size == isNewline(buf, p+j)
       IN NlBack(buf, p, offset, i-1,
                 IF nl_size > 0 THEN Append(nl_pos, j+nl_size) ELSE nl_pos)
  ELSE [i |-> i, nl_pos |-> nl_pos]

\* isCodeBlock from the value of nl_pos on
isCodeBlock_nl_pos(buf, p, offset, size, indent, indent0, nl_pos) ==
  LET nl == Len(nl_pos)
      indent1 == Max(indent,
                   computeIndentExcludingListMarkers(buf, p+nl_pos[3],
                                                     nl_pos[2]-nl_pos[3]))
  IN IF indent0 < codeBlockIndent THEN [res |-> FALSE, indent |-> indent]
     ELSE IF indent0 >= size \/ At(buf, p+indent0) = NL
     THEN [res |-> FALSE, indent |-> indent]
     ELSE IF nl = 3
     THEN IF ~isEmptyLine(buf, p+nl_pos[2], nl_pos[1]-nl_pos[2]-1)
          THEN [res |-> FALSE, indent |-> indent]
          ELSE [res |-> indent0 >= indent1 + codeBlockIndent,
                indent |-> indent1]
     ELSE IF nl = 1 /\ ~isEmptyLine(buf, p-offset, offset-1)
     THEN [res |-> FALSE, indent |-> indent]
     ELSE [res |-> indent0 >= indent + codeBlockIndent, indent |-> indent]

\* isCodeBlock(data,offset,size,indent): the result and the new indent
isCodeBlock(buf, p, offset, size, indent) ==
  LET indent0 == SkipIn(buf, p, p+size, {SP}) - p
      b == NlBack(buf, p, offset, offset, <<>>)
      nl_pos == IF b.i = 0 /\ Len(b.nl_pos) = 2
                THEN Append(b.nl_pos, -offset) ELSE b.nl_pos
  IN isCodeBlock_nl_pos(buf, p, offset, size, indent, indent0, nl_pos)

\* end of the line starting at i: end=i+1; while (end<=size && data[end-1]!='\n') end++
LineEnd(buf, p, size, i) == SkipNotIn(buf, p+i, p+size, {NL}) - p + 1

RECURSIVE CodeBlockLoop(_,_,_,_,_,_)
CodeBlockLoop(buf, p, size, refIndent, i, emptyLines) ==
  IF ~(i < size) THEN [i |-> i, out |-> <<>>, emptyLines |-> emptyLines]
  ELSE
  LET end == LineEnd(buf, p, size, i)
      j == SkipIn(buf, p+i, p+end, {SP}) - p
      indent == j - i
  IN IF j = end-1
     THEN CodeBlockLoop(buf, p, size, refIndent, end, emptyLines+1)
     ELSE IF indent >= refIndent + codeBlockIndent
     THEN LET r == CodeBlockLoop(buf, p, size, refIndent, end, 0)
          IN [i |-> r.i,
              out |-> Rep(NL, emptyLines)
                      \o Frag(buf, p+i+refIndent+codeBlockIndent,
                              end-i-refIndent-codeBlockIndent)
                      \o r.out,
              emptyLines |-> r.emptyLines]
     ELSE [i |-> i, out |-> <<>>, emptyLines |-> emptyLines]

\* writeCodeBlock writing the blank lines it has left before the end command
writeCodeBlock_blanksInside(buf, p, size, refIndent) ==
  LET r == CodeBlockLoop(buf, p, size, refIndent, 0, 0)
  IN [ret |-> r.i,
      out |-> <<"@","i","v","e","r","b","a","t","i","m",NL>> \o r.out \o Rep(NL, r.emptyLines)
              \o <<"@","e","n","d","i","v","e","r","b","a","t","i","m","\\","i","l","i","n","e","b","r"," ">>]

writeCodeBlock(buf, p, size, refIndent) ==
  LET r == CodeBlockLoop(buf, p, size, refIndent, 0, 0)
  IN [ret |-> r.i,
      out |-> <<"@","i","v","e","r","b","a","t","i","m",NL>> \o r.out \o <<"@","e","n","d","i","v","e","r","b","a","t","i","m","\\","i","l","i","n","e","b","r"," ">>
              \o Rep(NL, r.emptyLines)]

writeFencedCodeBlock(buf, p, lng, blockStart, blockEnd) ==
  LET lang == IF lng # <<>> /\ lng[1] = "." THEN Tail(lng) ELSE lng
      d == SkipIn(buf, p, Len(buf), {SP, "\t"})
      n == d - p
  IN Frag(buf, p, n) \o <<"@","i","c","o","d","e">>
     \o (IF lang # <<>> THEN <<"{">> \o lang \o <<"}">> ELSE <<>>)
     \o addStrEscapeUtf8Nbsp(buf, d + (blockStart-n),
                             (blockEnd-n) - (blockStart-n))
     \o <<"@","e","n","d","i","c","o","d","e">>

\* the quoting level of one line: the loop over ' ' and '>' from j
RECURSIVE QuoteLevel(_,_,_,_,_,_)
QuoteLevel(buf, p, end, j, level, indent) ==
  IF j < end /\ At(buf, p+j) \in {SP, ">"}
  THEN IF At(buf, p+j) = ">"
       THEN QuoteLevel(buf, p, end, j+1, level+1, j+1)
       ELSE QuoteLevel(buf, p, end, j+1, level,
                       IF j > 0 /\ At(buf, p+j-1) = ">" THEN j+1 ELSE indent)
  ELSE [j |-> j, level |-> level, indent |-> indent]

RECURSIVE BlockQuoteLoop(_,_,_,_,_)
\* BlockQuoteLoop from the value of level on
BlockQuoteLoop_level(buf, p, size, i, curLevel, end, indent, level) ==
  LET markers == IF level > curLevel
                 THEN Rep2(<<"<","b","l","o","c","k","q","u","o","t","e",">">>, level-1-curLevel)
                      \o <<"<","b","l","o","c","k","q","u","o","t","e",">","&","z","w","j",";">>
                 ELSE IF level < curLevel
                 THEN Rep2(<<"<","/","b","l","o","c","k","q","u","o","t","e",">">>, curLevel-level)
                 ELSE <<>>
  IN IF level = 0 THEN [i |-> i, out |-> markers]
     ELSE LET r == BlockQuoteLoop(buf, p, size, end, level)
          IN [i |-> r.i,
              out |-> markers \o Frag(buf, p+indent, end-indent) \o r.out]

\* BlockQuoteLoop from the value of q0 on
BlockQuoteLoop_q0(buf, p, size, i, curLevel, end, q0) ==
  LET disq == q0.j > 0 /\ At(buf, p+q0.j-1) = ">"
              /\ ~(q0.j = size \/ At(buf, p+q0.j) = NL)
      j == IF disq THEN q0.j-1 ELSE q0.j
      indent == IF disq THEN q0.indent-1 ELSE q0.indent
      level0 == IF disq THEN q0.level-1 ELSE q0.level
      level == IF level0 = 0 /\ At(buf, p+j-1) # NL THEN curLevel ELSE level0
  IN BlockQuoteLoop_level(buf, p, size, i, curLevel, end, indent, level)

BlockQuoteLoop(buf, p, size, i, curLevel) ==
  IF ~(i < size)
  THEN [i |-> i, out |-> Rep2(<<"<","/","b","l","o","c","k","q","u","o","t","e",">">>, curLevel)]
  ELSE
  LET end == LineEnd(buf, p, size, i)
      q0 == QuoteLevel(buf, p, end, i, 0, i)
  IN BlockQuoteLoop_q0(buf, p, size, i, curLevel, end, q0)

writeBlockQuote(buf, p, size) ==
  LET r == BlockQuoteLoop(buf, p, size, 0, 0)
  IN [ret |-> r.i, out |-> r.out]

-----------------------------------------------------------------------------
(* Tables: findTableColumns, isTableBlock, writeTableBlock *)

\* data[k]=='|' && (k==0 || data[k-1]!='\\') with k relative to data = buf+p
isColumnMarker(buf, p, k) ==
  At(buf, p+k) = "|" /\ (k = 0 \/ At(buf, p+k-1) # "\\")

RECURSIVE SkipToNewline(_,_,_)
SkipToNewline(buf, i, lim) ==
  IF i < lim /\ isNewline(buf, i) = 0 THEN SkipToNewline(buf, i+1, lim) ELSE i

RECURSIVE SkipBackSp(_,_,_)
SkipBackSp(buf, p, i) ==
  IF i > 0 /\ At(buf, p+i) = SP THEN SkipBackSp(buf, p, i-1) ELSE i

\* findTableColumns from the value of i1 on
findTableColumns_i1(buf, p, size, lead, start, i1) ==
  LET eol == i1 + (IF i1 < size THEN isNewline(buf, p+i1) ELSE 0)
      i2 == SkipBackSp(buf, p, i1-1)
      trail == i2 > 0 /\ At(buf, p+i2-1) # "\\" /\ At(buf, p+i2) = "|"
      end == IF trail THEN i2-1 ELSE i2
      n == (IF lead THEN 1 ELSE 0) + (IF trail THEN 1 ELSE 0)
      markers == Cardinality({k \in start..end : isColumnMarker(buf, p, k)})
      columns0 == IF end > start /\ markers > 0 THEN markers+1 ELSE 0
  IN [ret |-> eol, start |-> start, end |-> end,
      columns |-> IF n = 2 /\ columns0 = 0 THEN 1 ELSE columns0]

\* findTableColumns(data,size,start,end,columns): ret is the offset of the
\* next line
findTableColumns(buf, p, size) ==
  LET i0 == SkipIn(buf, p, p+size, {SP}) - p
      lead == i0 < size /\ At(buf, p+i0) = "|" /\ At(buf, p+i0) # NL
      start == IF lead THEN i0+1 ELSE i0
      i1 == SkipToNewline(buf, p+start, p+size) - p
  IN findTableColumns_i1(buf, p, size, lead, start, i1)

\* isTableBlock from the value of r1 on
isTableBlock_r1(buf, p, size, r0, i, r1) ==
  LET r2 == findTableColumns(buf, p+i+r1.ret, size-i-r1.ret)
  IN IF i >= size \/ r0.columns < 1 THEN FALSE
     ELSE IF \E j \in i+r1.start .. r1.end+i :
               At(buf, p+j) \notin {":", "-", "|", SP}
     THEN FALSE
     ELSE IF r1.columns # r0.columns THEN FALSE
     ELSE r1.columns = r2.columns

\* isTableBlock from the value of r0 on
isTableBlock_r0(buf, p, size, r0) ==
  LET i == r0.ret
      r1 == findTableColumns(buf, p+i, size-i)
  IN isTableBlock_r1(buf, p, size, r0, i, r1)

isTableBlock(buf, p, size) ==
  LET r0 == findTableColumns(buf, p, size)
  IN isTableBlock_r0(buf, p, size, r0)

AlignNone == 0
AlignLeft == 1
AlignCenter == 2
AlignRight == 3

\* markersToAlignment with the two markers taken for each other
markersToAlignment_swapped(leftMarker, rightMarker) ==
  IF leftMarker /\ rightMarker THEN AlignCenter
  ELSE IF leftMarker THEN AlignRight
  ELSE IF rightMarker THEN AlignLeft
  ELSE AlignNone

markersToAlignment(leftMarker, rightMarker) ==
  IF leftMarker /\ rightMarker THEN AlignCenter
  ELSE IF leftMarker THEN AlignLeft
  ELSE IF rightMarker THEN AlignRight
  ELSE AlignNone

\* the loop over the separator row, j relative to the table's data
RECURSIVE AlignLoop(_,_,_,_,_,_,_,_,_,_)
AlignLoop(buf, p, j, last, columns, k, leftMarker, rightMarker, startFound,
          columnAlignment) ==
  IF ~(j <= last)
  THEN IF k < columns
       THEN [columnAlignment EXCEPT
               ![k+1] = markersToAlignment(leftMarker, rightMarker)]
       ELSE columnAlignment
  ELSE
  LET c == At(buf, p+j)
      left1 == IF ~startFound /\ c = ":" THEN TRUE ELSE leftMarker
      found1 == IF ~startFound /\ c \in {":", "-"} THEN TRUE ELSE startFound
      right1 == IF c = "-" THEN FALSE ELSE IF c = ":" THEN TRUE
                ELSE rightMarker
  IN IF isColumnMarker(buf, p, j)
     THEN IF k < columns
          THEN AlignLoop(buf, p, j+1, last, columns, k+1, FALSE, FALSE, FALSE,
                 [columnAlignment EXCEPT
                    ![k+1] = markersToAlignment(left1, right1)])
          ELSE AlignLoop(buf, p, j+1, last, columns, k+1, left1, right1,
                         found1, columnAlignment)
     ELSE AlignLoop(buf, p, j+1, last, columns, k, left1, right1, found1,
                    columnAlignment)

\* a cell as stored: colSpan is taken before white space is stripped
Cell(text) == [cellText |-> stripWhiteSpace(text), colSpan |-> text = <<>>]

\* a character of a header cell: any but an unescaped column marker
IsHeaderText(buf, p, x) ==
  ~(At(buf, p+x) = "|" /\ ~(x > 0 /\ At(buf, p+x-1) = "\\"))

\* the header cells: for each column the text up to the next column marker
RECURSIVE HeaderCells(_,_,_,_,_)
HeaderCells(buf, p, m, headerEnd, k) ==
  IF k = 0 THEN <<>>
  ELSE LET e == CHOOSE x \in m..Max(m, headerEnd+1) :
                  /\ (x > headerEnd \/ ~IsHeaderText(buf, p, x))
                  /\ \A y \in m..x-1 :
                       y <= headerEnd /\ IsHeaderText(buf, p, y)
       IN <<Cell(Frag(buf, p+m, e-m))>>
          \o HeaderCells(buf, p, e+1, headerEnd, k-1)

\* the cells of a body row: the texts between the column markers of
\* [j..last], raw is the text gathered for cell k so far
RECURSIVE RowCells(_,_,_,_,_)
RowCells(buf, p, j, last, raw) ==
  IF ~(j <= last) THEN <<Cell(raw)>>
  ELSE IF isColumnMarker(buf, p, j)
  THEN <<Cell(raw)>> \o RowCells(buf, p, j+1, last, <<>>)
  ELSE RowCells(buf, p, j+1, last, Append(raw, At(buf, p+j)))

\* rowContents(columns) after the loop: cells never written stay empty
PadRow(cells, columns) ==
  [c \in 1..Max(columns, Len(cells)) |->
     IF c <= Len(cells) THEN cells[c]
     ELSE [cellText |-> <<>>, colSpan |-> FALSE]]

RECURSIVE BodyRows(_,_,_,_,_)
\* BodyRows from the value of r on
BodyRows_r(buf, p, size, i, columns, r) ==
  IF r.columns # columns THEN [i |-> i, rows |-> <<>>]
  ELSE LET rest == BodyRows(buf, p, size, i+r.ret, columns)
       IN [i |-> rest.i,
           rows |-> <<PadRow(RowCells(buf, p, r.start+i, r.end+i,
                                      <<>>), columns)>>
                    \o rest.rows]

\* the body rows from offset i on: the rows and the offset after the table
BodyRows(buf, p, size, i, columns) ==
  IF ~(i < size) THEN [i |-> i, rows |-> <<>>]
  ELSE LET r == findTableColumns(buf, p+i, size-i)
       IN BodyRows_r(buf, p, size, i, columns, r)

AlignName(a) ==
  CASE a = AlignLeft -> <<"L","e","f","t","\"">>
    [] a = AlignRight -> <<"R","i","g","h","t","\"">>
    [] a = AlignCenter -> <<"C","e","n","t","e","r","\"">>
    [] OTHER -> <<"N","o","n","e","\"">>

\* while (cr >= 0 && tableContents[row][cr].colSpan) cr--, cr 0-based
RECURSIVE SpanOwner(_,_)
SpanOwner(rowCells, cr) ==
  IF cr >= 0 /\ rowCells[cr+1].colSpan THEN SpanOwner(rowCells, cr-1) ELSE cr

\* rows below row (0-based) that continue column c with a caret
RECURSIVE RowSpan(_,_,_)
RowSpan(tableContents, spanRow, c) ==
  IF spanRow < Len(tableContents)
     /\ tableContents[spanRow+1][c+1].cellText = <<"^">>
  THEN 1 + RowSpan(tableContents, spanRow+1, c) ELSE 0

\* while ((c < columns-1) && tableContents[row][c+1].colSpan) c++
RECURSIVE ColSpanEnd(_,_,_)
ColSpanEnd(rowCells, c, columns) ==
  IF c < columns-1 /\ rowCells[c+2].colSpan
  THEN ColSpanEnd(rowCells, c+1, columns) ELSE c

\* the loop over the columns without the c++ of the column span loop: the
\* cells a written cell spans are visited again
RECURSIVE EmitCells_noAdvance(_,_,_,_,_)
EmitCells_noAdvance(tableContents, row, c, columns, columnAlignment) ==
  IF ~(c < columns) THEN [out |-> <<>>, cells |-> <<>>, skipped |-> 0]
  ELSE
  LET rowCells == tableContents[row+1]
      cr == SpanOwner(rowCells, c)
      skip == \/ rowCells[c+1].cellText = <<"^">>
              \/ (rowCells[c+1].colSpan /\ cr >= 0
                  /\ rowCells[cr+1].cellText = <<"^">>)
      rest == EmitCells_noAdvance(tableContents, row, c+1, columns,
                                  columnAlignment)
  IN IF skip
     THEN [out |-> rest.out, cells |-> rest.cells,
           skipped |-> rest.skipped + 1]
     ELSE [out |-> rest.out,
           cells |-> <<[col |-> c,
                        colSpan |-> 1 + (ColSpanEnd(rowCells, c, columns) - c),
                        align |-> columnAlignment[c+1]]>> \o rest.cells,
           skipped |-> rest.skipped]

RECURSIVE EmitCells(_,_,_,_,_)
\* EmitCells from the value of rest on
EmitCells_rest(c, columnAlignment, cell, skip, colSpan, rowSpan, cellTag,
               cellClass, rest) ==
  IF skip
  THEN [out |-> rest.out, cells |-> rest.cells,
        skipped |-> rest.skipped + 1]
  ELSE [out |-> <<" "," "," "," ","<">> \o cellTag \o <<" ">> \o cellClass
                \o AlignName(columnAlignment[c+1])
                \o (IF rowSpan > 1
                    THEN <<" ","r","o","w","s","p","a","n","=","\"">> \o setNum(rowSpan) \o <<"\"">> ELSE <<>>)
                \o (IF colSpan > 1
                    THEN <<" ","c","o","l","s","p","a","n","=","\"">> \o setNum(colSpan) \o <<"\"">> ELSE <<>>)
                \o <<">"," ">> \o cell.cellText \o <<" ","\\","i","l","i","n","e","b","r"," ","<","/">> \o cellTag
                \o <<">">>
                \o rest.out,
        cells |-> <<[col |-> c, colSpan |-> colSpan,
                     align |-> columnAlignment[c+1]]>> \o rest.cells,
        skipped |-> rest.skipped]

\* the loop over the columns of one row (0-based row and c): the text
\* written, the cells written (column, colspan, alignment) and the number
\* of cells passed over
EmitCells(tableContents, row, c, columns, columnAlignment) ==
  IF ~(c < columns) THEN [out |-> <<>>, cells |-> <<>>, skipped |-> 0]
  ELSE
  LET rowCells == tableContents[row+1]
      cell == rowCells[c+1]
      cr == SpanOwner(rowCells, c)
      skip == \/ cell.cellText = <<"^">>
              \/ (cell.colSpan /\ cr >= 0 /\ rowCells[cr+1].cellText = <<"^">>)
      rowSpan == 1 + RowSpan(tableContents, row+1, c)
      c1 == ColSpanEnd(rowCells, c, columns)
      colSpan == 1 + (c1 - c)
      cellTag == IF row = 0 THEN <<"t","h">> ELSE <<"t","d">>
      cellClass == IF row = 0 THEN <<"c","l","a","s","s","=","\"","m","a","r","k","d","o","w","n","T","a","b","l","e","H","e","a","d">>
                   ELSE <<"c","l","a","s","s","=","\"","m","a","r","k","d","o","w","n","T","a","b","l","e","B","o","d","y">>
      rest == EmitCells(tableContents, row, (IF skip THEN c ELSE c1) + 1,
                        columns, columnAlignment)
  IN EmitCells_rest(c, columnAlignment, cell, skip, colSpan, rowSpan,
         cellTag, cellClass, rest)

RECURSIVE EmitRows(_,_,_,_)
\* EmitRows from the value of e on
EmitRows_e(tableContents, row, columns, columnAlignment, e) ==
  LET rest == EmitRows(tableContents, row+1, columns, columnAlignment)
  IN [out |-> (IF row # 0
               THEN (IF row % 2 = 1
                     THEN <<NL,"<","t","r"," ","c","l","a","s","s","=","\"","m","a","r","k","d","o","w","n","T","a","b","l","e","R","o","w","O","d","d","\"",">">>
                     ELSE <<NL,"<","t","r"," ","c","l","a","s","s","=","\"","m","a","r","k","d","o","w","n","T","a","b","l","e","R","o","w","E","v","e","n","\"",">">>)
               ELSE <<NL," "," ","<","t","r"," ","c","l","a","s","s","=","\"","m","a","r","k","d","o","w","n","T","a","b","l","e","H","e","a","d","\"",">">>)
              \o e.out \o <<" "," ","<","/","t","r",">">> \o rest.out,
      rows |-> <<[cells |-> e.cells, skipped |-> e.skipped]>> \o rest.rows]

\* the loop over the rows, row 0-based
EmitRows(tableContents, row, columns, columnAlignment) ==
  IF ~(row < Len(tableContents)) THEN [out |-> <<>>, rows |-> <<>>]
  ELSE
  LET e == EmitCells(tableContents, row, 0, columns, columnAlignment)
  IN EmitRows_e(tableContents, row, columns, columnAlignment, e)

\* writeTableBlock from the value of body on
writeTableBlock_body(columns, columnAlignment, headerContents, body) ==
  LET tableContents ==
        <<headerContents>>
        \o [r \in 1..Len(body.rows) |-> SubSeq(body.rows[r], 1, columns)]
      e == EmitRows(tableContents, 0, columns, columnAlignment)
  IN [ret |-> body.i,
      out |-> <<"<","t","a","b","l","e"," ","c","l","a","s","s","=","\"","m","a","r","k","d","o","w","n","T","a","b","l","e","\"",">">> \o e.out \o <<"<","/","t","a","b","l","e",">",NL>>,
      columns |-> columns,
      columnAlignment |-> columnAlignment,
      rows |-> e.rows,
      overflow |-> \E r \in 1..Len(body.rows) : Len(body.rows[r]) > columns]

\* writeTableBlock from the value of s on
writeTableBlock_s(buf, p, size, h, columns, i, s) ==
  LET columnAlignment ==
        AlignLoop(buf, p, s.start+i, s.end+i, columns, 0, FALSE, FALSE, FALSE,
                  [c \in 1..columns |-> AlignNone])
      headerContents == HeaderCells(buf, p, h.start, h.end, columns)
      body == BodyRows(buf, p, size, i+s.ret, columns)
  IN writeTableBlock_body(columns, columnAlignment, headerContents, body)

\* writeTableBlock from the value of h on
writeTableBlock_h(buf, p, size, h) ==
  LET columns == h.columns
      i == h.ret
      s == findTableColumns(buf, p+i, size-i)
  IN writeTableBlock_s(buf, p, size, h, columns, i, s)

\* writeTableBlock(data,size): the offset after the table, the text written,
\* and what was written for each row; overflow tells that a row had more
\* column markers than rowContents has cells
writeTableBlock(buf, p, size) ==
  LET h == findTableColumns(buf, p, size)
  IN writeTableBlock_h(buf, p, size, h)

-----------------------------------------------------------------------------
(* detab, processQuotations, processBlocks, process *)

\* Config_getInt(TAB_SIZE), at its default
tabSize == 4

\* isUTF8NonBreakableSpace(data): bytes of a leading non-breakable space
isUTF8NonBreakableSpace(buf, k) ==
  IF At(buf, k) = "0xC2" /\ At(buf, k+1) = "0xA0" THEN 2 ELSE 0

\* getUTF8CharNumBytes(c) for the lead and continuation bytes of the model
getUTF8CharNumBytes(c) == IF c \in {"0xC2", "0xC3"} THEN 2 ELSE 1

\* a tab that ignores the column it stands at
TabStop_fullWidth(col) == tabSize

\* detab: int stop = tabSize - (col%tabSize)
TabStop(col) == tabSize - (col % tabSize)

RECURSIVE DetabLoop(_,_,_,_)
\* DetabLoop from the value of r on
DetabLoop_r(s, r) ==
  LET rest == DetabLoop(s, r.i, r.col, r.min)
  IN [out |-> r.out \o rest.out, minIndent |-> rest.minIndent]

\* the loop of detab from position i and column col: the text and minIndent
\* (-1 while no character outside white space was seen)
DetabLoop(s, i, col, minIndent) ==
  IF ~(i < Len(s)) THEN [out |-> <<>>, minIndent |-> minIndent]
  ELSE
  LET c == At(s, i)
      min1 == IF minIndent = -1 \/ col < minIndent THEN col ELSE minIndent
      nb == isUTF8NonBreakableSpace(s, 0)
      bytes == getUTF8CharNumBytes(c)
      multi == c \in HighByte /\ i+1 < Len(s)
      r == CASE c = "\t" -> [out |-> Rep(SP, TabStop(col)),
                             i |-> i+1,
                             col |-> col + TabStop(col),
                             min |-> minIndent]
             [] c = NL -> [out |-> <<c>>, i |-> i+1, col |-> 0,
                           min |-> minIndent]
             [] c = SP -> [out |-> <<c>>, i |-> i+1, col |-> col+1,
                           min |-> minIndent]
             [] OTHER ->
                  IF multi /\ nb > 0
                  THEN [out |-> g_doxy_nbsp, i |-> i+1+nb-1, col |-> col+1,
                        min |-> min1]
                  ELSE IF multi
                  THEN [out |-> Frag(s, i, bytes), i |-> i+bytes,
                        col |-> col+1, min |-> min1]
                  ELSE [out |-> <<c>>, i |-> i+1, col |-> col+1, min |-> min1]
  IN DetabLoop_r(s, r)

\* detab(s,refIndent): the text and refIndent
detab(s) ==
  LET r == DetabLoop(s, 0, 0, -1)
  IN [out |-> r.out,
      refIndent |-> IF r.minIndent # -1 THEN r.minIndent ELSE 0]

\* ListTrack from the value of listIndent on
ListTrack_listIndent(buf, i, end, insideList, currentIndent, listIndent) ==
  IF listIndent # 0
  THEN [newBlock |-> FALSE,
        insideList |-> insideList \/ listIndent < currentIndent+4,
        currentIndent |-> IF listIndent < currentIndent+4
                          THEN listIndent ELSE currentIndent,
        listIndent |-> listIndent]
  ELSE IF isEndOfList(buf, i, end-i)
  THEN [newBlock |-> FALSE, insideList |-> FALSE,
        currentIndent |-> listIndent, listIndent |-> listIndent]
  ELSE [newBlock |-> isEmptyLine(buf, i, end-i),
        insideList |-> insideList,
        currentIndent |-> currentIndent, listIndent |-> listIndent]

\* a list tracker without the cap: every marker is taken, whatever its column
ListTrack_uncapped(buf, i, end, indent, l) ==
  LET lineIndent == SkipIn(buf, i, i+end, {SP}) - i
      endList == l.newBlock /\ l.insideList /\ lineIndent < l.currentIndent
      currentIndent == IF endList THEN indent ELSE l.currentIndent
      insideList == IF endList THEN FALSE ELSE l.insideList
      listIndent == isListMarker(buf, i, end-i)
  IN ListTrack_listIndent(buf, i, end, insideList,
                          IF listIndent # 0 THEN listIndent ELSE currentIndent,
                          listIndent)

\* the head of the line loops of processQuotations and processBlocks: the
\* list state after the line [i..end)
ListTrack(buf, i, end, indent, l) ==
  LET lineIndent == SkipIn(buf, i, i+end, {SP}) - i
      endList == l.newBlock /\ l.insideList /\ lineIndent < l.currentIndent
      currentIndent == IF endList THEN indent ELSE l.currentIndent
      insideList == IF endList THEN FALSE ELSE l.insideList
      listIndent == isListMarker(buf, i, end-i)
  IN ListTrack_listIndent(buf, i, end, insideList, currentIndent, listIndent)

\* the state of a line loop before its first iteration
LoopInit(indent) ==
  [i |-> 0, end |-> 0, pi |-> -1, newBlock |-> FALSE, insideList |-> FALSE,
   currentIndent |-> indent, listIndent |-> indent]

LoopNext(i, end, pi, t) ==
  [i |-> i, end |-> end, pi |-> pi, newBlock |-> t.newBlock,
   insideList |-> t.insideList, currentIndent |-> t.currentIndent,
   listIndent |-> t.listIndent]

\* addSpecialCommand from the value of cmd on
addSpecialCommand_cmd(cmd) ==
  processSpecialCommand(cmd, 0, 0, Len(cmd)).out

\* the lambda addSpecialCommand of processQuotations: what it writes
addSpecialCommand(buf, pi, f, startCmd, endCmd) ==
  LET cmdPos == pi + f.start + 1
      n == f.end - f.start - 1
      pl == IF n < 0 THEN Frag(buf, cmdPos, Len(buf)) ELSE Frag(buf, cmdPos, n)
      ii == SkipIn(pl, 0, Len(pl), {SP, NL, "\t", "\r"})
      absent == \/ ii + Len(startCmd) >= Len(pl)
                \/ At(pl, ii) \notin {"\\", "@"}
                \/ ~StrNCmpEq(pl, ii+1, startCmd)
      cmd == IF absent
             THEN <<"@">> \o startCmd \o <<"\\","i","l","i","n","e","b","r"," ">> \o pl \o <<" ","@">> \o endCmd
             ELSE pl
  IN addSpecialCommand_cmd(cmd)

\* QuotationsLine from the value of w on
QuotationsLine_w(pi, t, w) ==
  [loop |-> LoopNext(pi+w.ret, pi+w.ret+1, -1, t), out |-> w.out]

\* QuotationsLine from the value of f on
QuotationsLine_f(buf, size, cfg, i, pi, end, t, f) ==
  IF pi # -1 /\ f.res
  THEN [loop |-> LoopNext(pi+f.offset, pi+f.offset+1, -1, t),
        out |-> IF cfg.plantuml /\ f.lang = <<"p","l","a","n","t","u","m","l">>
                THEN addSpecialCommand(buf, pi, f, <<"s","t","a","r","t","u","m","l">>, <<"e","n","d","u","m","l">>)
                ELSE IF cfg.haveDot /\ f.lang = <<"d","o","t">>
                THEN addSpecialCommand(buf, pi, f, <<"d","o","t">>, <<"e","n","d","d","o","t">>)
                ELSE IF f.lang = <<"m","s","c">>
                THEN addSpecialCommand(buf, pi, f, <<"m","s","c">>, <<"e","n","d","m","s","c">>)
                ELSE writeFencedCodeBlock(buf, pi, f.lang, f.start, f.end)]
  ELSE IF pi # -1 /\ isBlockQuote(buf, pi, i-pi, t.currentIndent)
  THEN LET w == writeBlockQuote(buf, pi, size-pi)
       IN QuotationsLine_w(pi, t, w)
  ELSE [loop |-> LoopNext(end, end, i, t),
        out |-> IF pi # -1 THEN Frag(buf, pi, i-pi) ELSE <<>>]

\* QuotationsLine from the value of t on
QuotationsLine_t(buf, size, cfg, i, pi, end, t) ==
  LET f == isFencedCodeBlock(buf, pi, size-pi, t.currentIndent)
  IN QuotationsLine_f(buf, size, cfg, i, pi, end, t, f)

\* QuotationsLine from the value of end on
QuotationsLine_end(buf, size, refIndent, l, cfg, i, pi, end) ==
  LET t == ListTrack(buf, i, end, refIndent, l)
  IN QuotationsLine_t(buf, size, cfg, i, pi, end, t)

\* one iteration of the line loop of processQuotations
QuotationsLine(buf, size, refIndent, l, cfg) ==
  LET i == l.i
      pi == l.pi
      end == findEndOfLine(buf, 0, size, i)
  IN QuotationsLine_end(buf, size, refIndent, l, cfg, i, pi, end)

\* processQuotations after the loop: the last line
QuotationsLast(buf, size, l) ==
  IF l.pi # -1 /\ l.pi < size
  THEN IF isBlockQuote(buf, l.pi, size-l.pi, l.currentIndent)
       THEN writeBlockQuote(buf, l.pi, size-l.pi).out
       ELSE Frag(buf, l.pi, size-l.pi)
  ELSE <<>>

\* processBlocks copying a block command through its end command, from i
RECURSIVE CopyBlock(_,_,_,_)
CopyBlock(buf, size, i, endBlockName) ==
  LET l == Len(endBlockName)
  IN IF ~(i < size-l) THEN [i |-> i, out |-> <<>>]
     ELSE IF /\ At(buf, i) \in {"\\", "@"}
             /\ At(buf, i-1) \notin {"\\", "@"}
             /\ StrNCmpEq(buf, i+1, endBlockName)
     THEN [i |-> i+l+1, out |-> <<At(buf, i)>> \o endBlockName]
     ELSE LET rest == CopyBlock(buf, size, i+1, endBlockName)
          IN [i |-> rest.i, out |-> <<At(buf, i)>> \o rest.out]

\* PreviousLine from the value of w on
PreviousLine_w(e, r, w) ==
  IF r.ret # 0
  THEN [out |-> <<>>,
        linkRefs |-> insertLinkRef(e.linkRefs, r.refid, r.link, r.title),
        indentLevel |-> e.indentLevel, autoId |-> e.autoId]
  ELSE [out |-> w.out, linkRefs |-> e.linkRefs,
        indentLevel |-> w.indentLevel, autoId |-> w.autoId]

\* PreviousLine from the value of r on
PreviousLine_r(buf, pi, n, e, cfg, r) ==
  LET w == writeOneLineHeaderOrRuler(buf, pi, n, e.indentLevel, cfg.toc,
                                     e.autoId)
  IN PreviousLine_w(e, r, w)

\* the previous line [pi..pi+n) handed to isLinkRef and, when it is no link
\* reference, to writeOneLineHeaderOrRuler; e is the engine state
PreviousLine(buf, pi, n, e, cfg) ==
  LET r == isLinkRef(buf, pi, n)
  IN PreviousLine_r(buf, pi, n, e, cfg, r)

\* SetextHeader from the value of x on
SetextHeader_x(level, x) ==
  [out |-> IF x.title # <<>>
           THEN IF x.id # <<>>
                THEN (IF level = 1 THEN <<"@","s","e","c","t","i","o","n"," ">> ELSE <<"@","s","u","b","s","e","c","t","i","o","n"," ">>)
                     \o x.id \o <<" ">> \o x.title \o <<NL,NL>>
                ELSE (IF level = 1 THEN <<"<","h","1",">">> ELSE <<"<","h","2",">">>) \o x.title
                     \o (IF level = 1 THEN <<NL,"<","/","h","1",">",NL>> ELSE <<NL,"<","/","h","2",">",NL>>)
           ELSE <<NL,"<","h","r",">",NL>>,
   autoId |-> x.autoId]

\* the setext header branch of processBlocks: header text before the
\* underline at i
SetextHeader(buf, size, pi, i, level, e, cfg) ==
  LET pi1 == SkipIn(buf, pi, size, {SP})
      x == extractTitleId(Frag(buf, pi1, i-pi1-1), level, cfg.toc, e.autoId)
  IN SetextHeader_x(level, x)

\* BlocksLine from the value of pl on
BlocksLine_pl(buf, size, i, end, t, endBlockName, pl) ==
  LET cp == CopyBlock(buf, size, i+1, endBlockName)
  IN [loop |-> LoopNext(end, end, cp.i, t),
      out |-> pl.out \o <<At(buf, i)>> \o cp.out,
      e |-> [linkRefs |-> pl.linkRefs, indentLevel |-> pl.indentLevel,
             autoId |-> pl.autoId],
      branch |-> "command"]

\* BlocksLine from the value of h on
BlocksLine_h(end, t, eh, h) ==
  [loop |-> LoopNext(end, end+1, -1, t), out |-> h.out,
   e |-> [eh EXCEPT !.autoId = h.autoId], branch |-> "header"]

\* BlocksLine from the value of w on
BlocksLine_w(pi, t, eh, w) ==
  [loop |-> LoopNext(pi+w.ret, pi+w.ret+1, -1, t), out |-> w.out,
   e |-> eh, branch |-> "table"]

\* BlocksLine from the value of w on
BlocksLine_w2(e, i, end, t, w) ==
  [loop |-> LoopNext(end, end, i, t), out |-> w.out,
   e |-> [linkRefs |-> e.linkRefs, indentLevel |-> w.indentLevel,
          autoId |-> w.autoId],
   branch |-> "line"]

\* BlocksLine from the value of cb on
BlocksLine_cb(buf, size, e, cfg, i, pi, end, t, endBlockName, hl, eh, ref, f,
              cb) ==
  IF pi = -1
  THEN [loop |-> LoopNext(end, end, i, t), out |-> <<>>, e |-> e,
        branch |-> "first"]
  ELSE IF endBlockName # <<>>
  THEN LET pl == PreviousLine(buf, pi, i-pi, e, cfg)
       IN BlocksLine_pl(buf, size, i, end, t, endBlockName, pl)
  ELSE IF hl.ret > 0
  THEN LET h == SetextHeader(buf, size, pi, i, hl.ret, eh, cfg)
       IN BlocksLine_h(end, t, eh, h)
  ELSE IF ref.ret # 0
  THEN [loop |-> LoopNext(ref.ret+pi+1, ref.ret+pi+1, ref.ret+pi, t),
        out |-> <<>>,
        e |-> [eh EXCEPT !.linkRefs =
                 insertLinkRef(e.linkRefs, ref.refid, ref.link, ref.title)],
        branch |-> "linkref"]
  ELSE IF f.res
  THEN [loop |-> LoopNext(pi+f.offset, pi+f.offset+1, -1, t),
        out |-> writeFencedCodeBlock(buf, pi, f.lang, f.start, f.end),
        e |-> eh, branch |-> "fenced"]
  ELSE IF cb.res
  THEN LET w == writeCodeBlock(buf, i, size-i, cb.indent)
       IN [loop |-> LoopNext(i+w.ret, i+w.ret+1, -1, t), out |-> w.out,
           e |-> eh, branch |-> "code"]
  ELSE IF isTableBlock(buf, pi, size-pi)
  THEN LET w == writeTableBlock(buf, pi, size-pi)
       IN BlocksLine_w(pi, t, eh, w)
  ELSE LET w == writeOneLineHeaderOrRuler(buf, pi, i-pi, eh.indentLevel,
                                          cfg.toc, e.autoId)
       IN BlocksLine_w2(e, i, end, t, w)

\* BlocksLine from the value of f on
BlocksLine_f(buf, size, e, cfg, i, pi, end, t, endBlockName, hl, eh, ref,
             f) ==
  LET cb == isCodeBlock(buf, i, i, end-i, t.currentIndent)
  IN BlocksLine_cb(buf, size, e, cfg, i, pi, end, t, endBlockName, hl, eh,
         ref, f, cb)

\* BlocksLine from the value of ref on
BlocksLine_ref(buf, size, e, cfg, i, pi, end, t, endBlockName, hl, eh, ref) ==
  LET f == isFencedCodeBlock(buf, pi, size-pi, t.currentIndent)
  IN BlocksLine_f(buf, size, e, cfg, i, pi, end, t, endBlockName, hl, eh,
         ref, f)

\* BlocksLine from the value of eh on
BlocksLine_eh(buf, size, e, cfg, i, pi, end, t, endBlockName, hl, eh) ==
  LET ref == isLinkRef(buf, pi, size-pi)
  IN BlocksLine_ref(buf, size, e, cfg, i, pi, end, t, endBlockName, hl, eh,
         ref)

\* BlocksLine from the value of t on
BlocksLine_t(buf, size, e, cfg, i, pi, end, t) ==
  LET endBlockName == IF At(buf, i) \in {"@", "\\"}
                      THEN isBlockCommand(buf, i, i, size-i) ELSE <<>>
      hl == isHeaderline(buf, i, size-i, TRUE, e.indentLevel)
      eh == [linkRefs |-> e.linkRefs, indentLevel |-> hl.indentLevel,
             autoId |-> e.autoId]
  IN BlocksLine_eh(buf, size, e, cfg, i, pi, end, t, endBlockName, hl, eh)

\* BlocksLine from the value of end on
BlocksLine_end(buf, size, indent, l, e, cfg, i, pi, end) ==
  LET t == ListTrack(buf, i, end, indent, l)
  IN BlocksLine_t(buf, size, e, cfg, i, pi, end, t)

\* one iteration of the line loop of processBlocks; e is the engine state
\* (linkRefs, indentLevel, autoId) it reads and leaves
BlocksLine(buf, size, indent, l, e, cfg) ==
  LET i == l.i
      pi == l.pi
      end == findEndOfLine(buf, 0, size, i)
  IN BlocksLine_end(buf, size, indent, l, e, cfg, i, pi, end)

\* processBlocks leaving the last line out: nothing written for it and no
\* link reference taken from it
BlocksLast_dropsLastLine(buf, size, l, e, cfg) ==
  [out |-> <<>>, linkRefs |-> e.linkRefs, indentLevel |-> e.indentLevel,
   autoId |-> e.autoId]

\* processBlocks after the loop: the last line
BlocksLast(buf, size, l, e, cfg) ==
  IF l.pi # -1 /\ l.pi < size
  THEN PreviousLine(buf, l.pi, size-l.pi, e, cfg)
  ELSE [out |-> <<>>, linkRefs |-> e.linkRefs, indentLevel |-> e.indentLevel,
        autoId |-> e.autoId]

\* the post processing of process: the result and the newlines counted
RECURSIVE CountNewlines(_,_)
CountNewlines(s, k) == IF At(s, k) = NL THEN CountNewlines(s, k+1) ELSE k

\* PostProcess from the value of p2 on
PostProcess_p2(result, p1, p2) ==
  LET p3 == IF StrNCmpEq(result, p2, <<"<","b","r",">">>) THEN p2+4 ELSE p2
  IN [result |-> SubSeq(result, p3+1, Len(result)), newlines |-> p2 - p1]

PostProcess(out) ==
  LET result == substitute(out, g_doxy_nbsp, <<"&","n","b","s","p",";">>)
      p1 == SkipIn(result, 0, Len(result), {SP})
      p2 == CountNewlines(result, p1)
  IN PostProcess_p2(result, p1, p2)

-----------------------------------------------------------------------------
(* The inline pass as a state machine: one step for each iteration of the   *)
(* loop of processInline over the text in cur                               *)

\* what the inline handlers read of the engine and the configuration
Cx == [linkRefs |-> m_linkRefs, toc |-> config.toc]

\* process: m_out.clear() and the entry of processInline(s.data(),s.length())
InlineEntry ==
  /\ pc = "inline_entry"
  /\ m_out' = <<>>
  /\ loop' = [i |-> 0, end |-> 0]
  /\ pc' = "inline"
  /\ UNCHANGED <<input, ret, m_linkRefs, m_indentLevel, autoId, cur,
                 curIndent, config, startNewlines, results>>

\* InlineIter from the value of r on
InlineIter_r(r) ==
  /\ m_out' = m_out \o r.out
  /\ loop' = [i |-> r.i, end |-> r.end]
  /\ pc' = IF r.done THEN "post" ELSE "inline"

\* one iteration of while (i<size) in processInline, the break included
InlineIter ==
  /\ pc = "inline"
  /\ loop.i < Len(cur)
  /\ LET r == InlineStep(cur, 0, Len(cur), loop.i, loop.end, Cx)
     IN InlineIter_r(r)
  /\ UNCHANGED <<input, ret, m_linkRefs, m_indentLevel, autoId, cur,
                 curIndent, config, startNewlines, results>>

\* the loop condition i<size of processInline failing
InlineExit ==
  /\ pc = "inline"
  /\ ~(loop.i < Len(cur))
  /\ pc' = "post"
  /\ UNCHANGED <<input, ret, m_out, m_linkRefs, m_indentLevel, autoId, cur,
                 curIndent, loop, config, startNewlines, results>>

-----------------------------------------------------------------------------
(* Specification of the inline pass on its own: emphasis, dashes, any text *)

\* longest word between emphasis markers
MaxWord == 2
\* longest run of dashes tried
MaxDash == 4
\* longest text over the inline alphabet
MaxInline == 4

EmphWords == SeqsUpTo({"a", "Z", "9"}, MaxWord) \ {<<>>}
EmphPre == {<<>>, <<"x"," ">>}
EmphPost == {<<>>, <<" ","y">>, <<".">>}

EmphInputs ==
  { pre \o Rep("*", k) \o w \o g \o Rep("*", k) \o post :
      pre \in EmphPre, k \in 1..3, w \in EmphWords,
      g \in {<<>>, <<SP>>, <<NL>>}, post \in EmphPost }

DashPre == {<<>>, <<"a">>, <<"a"," ">>, <<"o","p","e","r","a","t","o","r">>, <<"<","!">>}
DashPost == {<<>>, <<"b">>, <<" ">>, <<">">>}

DashInputs ==
  { pre \o Rep("-", n) \o post :
      pre \in DashPre, n \in 1..MaxDash, post \in DashPost }

InlineAlphabet == {"*", "_", "a", SP, "-"}

InlineInputs ==
  EmphInputs \cup DashInputs \cup SeqsUpTo(InlineAlphabet, MaxInline)

InlineInit ==
  /\ pc = "inline_entry"
  /\ input \in InlineInputs
  /\ cur = input
  /\ ret = NoFence
  /\ EngineInit
  /\ curIndent = 0
  /\ loop = [i |-> 0, end |-> 0]
  /\ config = DefaultConfig
  /\ startNewlines = 0
  /\ results = <<>>

InlineNext == InlineEntry \/ InlineIter \/ InlineExit

InlineSpec == InlineInit /\ [][InlineNext]_vars

-----------------------------------------------------------------------------
(* C2: emphasis symmetry *)

\* C2: for a word w of identifier characters the inline pass emits *w* as
\* <em>w</em>, **w** as <strong>w</strong> and ***w*** as
\* <em><strong>w</strong></em>; with a space or newline directly before the
\* closer, *w * is emitted as it stands, without any tag.
C2_EmphasisSymmetry ==
  pc = "post" =>
    \A pre \in EmphPre, w \in EmphWords, post \in EmphPost :
      /\ input = pre \o <<"*">> \o w \o <<"*">> \o post
           => m_out = pre \o <<"<","e","m",">">> \o w \o <<"<","/","e","m",">">> \o post
      /\ input = pre \o <<"*","*">> \o w \o <<"*","*">> \o post
           => m_out = pre \o <<"<","s","t","r","o","n","g",">">> \o w \o <<"<","/","s","t","r","o","n","g",">">> \o post
      /\ input = pre \o <<"*","*","*">> \o w \o <<"*","*","*">> \o post
           => m_out = pre \o <<"<","e","m",">","<","s","t","r","o","n","g",">">> \o w \o <<"<","/","s","t","r","o","n","g",">","<","/","e","m",">">> \o post
      /\ \A g \in {SP, NL} :
           input = pre \o <<"*">> \o w \o <<g>> \o <<"*">> \o post => m_out = input

\* the inline pass has finished on **w** and on *w * for some word w
C2_Witness ==
  /\ pc = "post"
  /\ \E w \in EmphWords :
       \/ input = <<"*","*">> \o w \o <<"*","*">> /\ m_out = <<"<","s","t","r","o","n","g",">">> \o w \o <<"<","/","s","t","r","o","n","g",">">>
       \/ input = <<"*">> \o w \o <<" ","*">> /\ m_out = input

-----------------------------------------------------------------------------
(* C5: dash conversion *)

ndash == <<"&","n","d","a","s","h",";">>
mdash == <<"&","m","d","a","s","h",";">>

\* C5 (as claimed): a run of exactly two dashes becomes an en-dash and a run
\* of exactly three an em-dash, except that a run directly after `operator`
\* and a run that is part of <!-- or --> is left as it stands.
C5_DashesAsClaimed ==
  pc = "post" =>
    \A pre \in DashPre, n \in {2, 3}, post \in DashPost :
      input = pre \o Rep("-", n) \o post =>
        IF pre = <<"o","p","e","r","a","t","o","r">> \/ pre = <<"<","!">> \/ (n = 2 /\ post = <<">">>)
        THEN m_out = input
        ELSE (n = 3 /\ post = <<">">>)
             \/ m_out = pre \o (IF n = 2 THEN ndash ELSE mdash) \o post

\* C5 (corrected): a run of exactly two dashes becomes an en-dash and a run
\* of exactly three an em-dash, except that a run directly after <! is left
\* as it stands, and a run of exactly two is left as it stands directly
\* after `operator` or directly before >; a run of three after `operator`
\* or before > is converted like any other.
C5_DashConversion ==
  pc = "post" =>
    \A pre \in DashPre, n \in {2, 3}, post \in DashPost :
      input = pre \o Rep("-", n) \o post =>
        IF pre = <<"<","!">> \/ (n = 2 /\ (pre = <<"o","p","e","r","a","t","o","r">> \/ post = <<">">>))
        THEN m_out = input
        ELSE m_out = pre \o (IF n = 2 THEN ndash ELSE mdash) \o post

\* the inline pass has finished on a two-dash run after `operator` and on a
\* three-dash run after `operator`
C5_Witness ==
  /\ pc = "post"
  /\ \/ input = <<"o","p","e","r","a","t","o","r","-","-">> /\ m_out = input
     \/ input = <<"o","p","e","r","a","t","o","r","-","-","-">> /\ m_out = <<"o","p","e","r","a","t","o","r">> \o mdash

-----------------------------------------------------------------------------
(* Markdown::process as a state machine: the entry, detab, one step for     *)
(* each iteration of the line loops of processQuotations and processBlocks, *)
(* the inline pass above, and the post processing                           *)

\* what the block pass reads and leaves of the engine
Engine ==
  [linkRefs |-> m_linkRefs, indentLevel |-> m_indentLevel, autoId |-> autoId]

\* process without its test of the empty input
Start_noEmptyTest ==
  /\ pc = "process"
  /\ cur' = IF input = <<>> \/ input[Len(input)] # NL
            THEN Append(input, NL) ELSE input
  /\ pc' = "detab"
  /\ UNCHANGED <<input, ret, engine, curIndent, loop, config, startNewlines,
                 results>>

\* process: if (input.isEmpty()) return input; s = input; if (...) s += "\n"
Start ==
  /\ pc = "process"
  /\ IF input = <<>>
     THEN /\ results' = Append(results, [input |-> input, result |-> input])
          /\ pc' = "returned"
          /\ UNCHANGED cur
     ELSE /\ cur' = IF input[Len(input)] # NL THEN Append(input, NL) ELSE input
          /\ pc' = "detab"
          /\ UNCHANGED results
  /\ UNCHANGED <<input, ret, engine, curIndent, loop, config, startNewlines>>

\* process: s = detab(s,refIndent)
Detab ==
  /\ pc = "detab"
  /\ LET d == detab(cur)
     IN /\ m_out' = d.out
        /\ cur' = d.out
        /\ curIndent' = d.refIndent
  /\ pc' = "quotations_entry"
  /\ UNCHANGED <<input, ret, m_linkRefs, m_indentLevel, autoId, loop, config,
                 startNewlines, results>>

\* processQuotations(s,refIndent) up to its loop
QuotationsEntry ==
  /\ pc = "quotations_entry"
  /\ m_out' = <<>>
  /\ loop' = LoopInit(curIndent)
  /\ pc' = "quotations"
  /\ UNCHANGED <<input, ret, m_linkRefs, m_indentLevel, autoId, cur,
                 curIndent, config, startNewlines, results>>

\* QuotationsIter from the value of r on
QuotationsIter_r(r) ==
  /\ m_out' = m_out \o r.out
  /\ loop' = r.loop

\* one iteration of while (i<size) in processQuotations
QuotationsIter ==
  /\ pc = "quotations"
  /\ loop.i < Len(cur)
  /\ LET r == QuotationsLine(cur, Len(cur), curIndent, loop, config)
     IN QuotationsIter_r(r)
  /\ UNCHANGED <<pc, input, ret, m_linkRefs, m_indentLevel, autoId, cur,
                 curIndent, config, startNewlines, results>>

\* processQuotations after its loop, and s = its result
QuotationsExit ==
  /\ pc = "quotations"
  /\ ~(loop.i < Len(cur))
  /\ m_out' = m_out \o QuotationsLast(cur, Len(cur), loop)
  /\ cur' = m_out'
  /\ pc' = "blocks_entry"
  /\ UNCHANGED <<input, ret, m_linkRefs, m_indentLevel, autoId, curIndent,
                 loop, config, startNewlines, results>>

\* processBlocks(s,refIndent) up to its loop
BlocksEntry ==
  /\ pc = "blocks_entry"
  /\ m_out' = <<>>
  /\ loop' = LoopInit(curIndent)
  /\ pc' = "blocks"
  /\ UNCHANGED <<input, ret, m_linkRefs, m_indentLevel, autoId, cur,
                 curIndent, config, startNewlines, results>>

\* BlocksIter from the value of r on
BlocksIter_r(r) ==
  LET overflow == r.branch = "table"
                  /\ writeTableBlock(cur, loop.pi, Len(cur)-loop.pi).overflow
  IN \/ /\ m_out' = m_out \o r.out
        /\ loop' = r.loop
        /\ m_linkRefs' = r.e.linkRefs
        /\ m_indentLevel' = r.e.indentLevel
        /\ autoId' = r.e.autoId
        /\ pc' = pc
     \/ /\ overflow
        /\ pc' = "crashed"
        /\ UNCHANGED <<m_out, loop, m_linkRefs, m_indentLevel, autoId>>

\* one iteration of while (i<size) in processBlocks.  Where writeTableBlock
\* writes past the end of rowContents the behaviour is undefined: the run
\* goes on as if the write had hit nothing, or it is killed.
BlocksIter ==
  /\ pc = "blocks"
  /\ loop.i < Len(cur)
  /\ LET r == BlocksLine(cur, Len(cur), curIndent, loop, Engine, config)
     IN BlocksIter_r(r)
  /\ UNCHANGED <<input, ret, cur, curIndent, config, startNewlines, results>>

\* BlocksExit from the value of r on
BlocksExit_r(r) ==
  /\ m_out' = m_out \o r.out
  /\ m_linkRefs' = r.linkRefs
  /\ m_indentLevel' = r.indentLevel
  /\ autoId' = r.autoId

\* processBlocks after its loop, and s = its result
BlocksExit ==
  /\ pc = "blocks"
  /\ ~(loop.i < Len(cur))
  /\ LET r == BlocksLast(cur, Len(cur), loop, Engine, config)
     IN BlocksExit_r(r)
  /\ cur' = m_out'
  /\ pc' = "inline_entry"
  /\ UNCHANGED <<input, ret, curIndent, loop, config, startNewlines, results>>

\* process: the post processing and the return
Post ==
  /\ pc = "post"
  /\ LET r == PostProcess(m_out)
     IN /\ results' = Append(results, [input |-> input, result |-> r.result])
        /\ startNewlines' = startNewlines + r.newlines
  /\ pc' = "returned"
  /\ UNCHANGED <<input, ret, engine, cur, curIndent, loop, config>>

-----------------------------------------------------------------------------
(* Specification of link references: documents made of definition lines    *)
(* and one closing line, run through processBlocks and processInline       *)

\* most definition lines in a document
MaxDefs == 2

\* a definition [label]: url "title", title optional
DefTriples ==
  [label : {<<"A">>, <<"a">>, <<"B">>}, url : {<<"/","x">>, <<"/","y">>}, title : {<<>>, <<"T">>}]

RenderDef(d) ==
  <<"[">> \o d.label \o <<"]",":"," ">> \o d.url
  \o (IF d.title # <<>> THEN <<" ","\"">> \o d.title \o <<"\"">> ELSE <<>>)

RECURSIVE RenderDefs(_)
RenderDefs(defs) ==
  IF defs = <<>> THEN <<>>
  ELSE RenderDef(Head(defs)) \o <<NL>> \o RenderDefs(Tail(defs))

\* labels a closing line refers to; Z is never defined
RefLabels == {<<"A">>, <<"a">>, <<"B">>, <<"Z">>}

\* the closing line: a full reference, a shortcut before a full stop, a
\* shortcut at the end of the line, a shortcut inside emphasis
RefFull(l) == <<"[","t","]","[">> \o l \o <<"]">>
RefShort(l) == <<"[">> \o l \o <<"]",".">>
RefShortEol(l) == <<"[">> \o l \o <<"]">>
RefShortEmph(l) == <<"*","[">> \o l \o <<"]","*">>

LinkTails ==
  {<<>>, <<"@","v","e","r","b","a","t","i","m"," ","x","@","e","n","d","v","e","r","b","a","t","i","m">>}
  \cup { RefFull(l) : l \in RefLabels }
  \cup { RefShort(l) : l \in RefLabels }
  \cup { RefShortEol(l) : l \in RefLabels }
  \cup { RefShortEmph(l) : l \in RefLabels }

LinkDocs ==
  { RenderDefs(defs) \o (IF t = <<>> THEN <<>> ELSE t \o <<NL>>) :
      defs \in SeqsUpTo(DefTriples, MaxDefs), t \in LinkTails } \ {<<>>}

LinkInit ==
  /\ pc = "blocks_entry"
  /\ input \in LinkDocs
  /\ cur = input
  /\ ret = NoFence
  /\ EngineInit
  /\ curIndent = 0
  /\ loop = [i |-> 0, end |-> 0]
  /\ config = DefaultConfig
  /\ startNewlines = 0
  /\ results = <<>>

LinkNext ==
  \/ BlocksEntry \/ BlocksIter \/ BlocksExit
  \/ InlineEntry \/ InlineIter \/ InlineExit

LinkSpec == LinkInit /\ [][LinkNext]_vars

\* the lines of a text, without their newlines
RECURSIVE Lines(_,_)
Lines(t, acc) ==
  IF t = <<>> THEN (IF acc = <<>> THEN <<>> ELSE <<acc>>)
  ELSE IF t[1] = NL THEN <<acc>> \o Lines(Tail(t), <<>>)
  ELSE Lines(Tail(t), Append(acc, t[1]))

\* the definitions a document was written with, in order
IsDefLine(line) == \E d \in DefTriples : RenderDef(d) = line
DefsOf(t) ==
  LET ls == SelectSeq(Lines(t, <<>>), IsDefLine)
  IN [k \in 1..Len(ls) |-> CHOOSE d \in DefTriples : RenderDef(d) = ls[k]]

\* the closing line of a document, if it has one
TailOf(t) ==
  LET ls == Lines(t, <<>>)
  IN IF ls # <<>> /\ ~IsDefLine(ls[Len(ls)]) THEN ls[Len(ls)] ELSE <<>>

\* the first definition of a case-folded label
FirstDef(defs, key) ==
  defs[CHOOSE k \in 1..Len(defs) :
         /\ lower(defs[k].label) = key
         /\ \A j \in 1..k-1 : lower(defs[j].label) # key]

-----------------------------------------------------------------------------
(* C4: the first definition wins *)

\* C4: at every moment each entry of the link-reference table holds the link
\* and title of the first definition of its case-folded label in the
\* document, so that a later definition of the label never changes it; once
\* the block pass is over every defined label has its entry.
C4_FirstDefinitionWins ==
  LET defs == DefsOf(input)
  IN /\ \A e \in 1..Len(m_linkRefs) :
          /\ \E k \in 1..Len(defs) : lower(defs[k].label) = m_linkRefs[e].id
          /\ m_linkRefs[e].link = FirstDef(defs, m_linkRefs[e].id).url
          /\ m_linkRefs[e].title = FirstDef(defs, m_linkRefs[e].id).title
     /\ pc \in {"inline_entry", "inline", "post"} =>
          \A k \in 1..Len(defs) : hasLinkRef(m_linkRefs, lower(defs[k].label))

\* C4_Witness from the value of defs on
C4_Witness_defs(defs) ==
  /\ pc = "inline_entry"
  /\ Len(defs) = 2
  /\ lower(defs[1].label) = lower(defs[2].label)
  /\ defs[1].url # defs[2].url
  /\ hasLinkRef(m_linkRefs, lower(defs[1].label))
  /\ findLinkRef(m_linkRefs, lower(defs[1].label)).link = defs[1].url

\* the block pass is over on a document that defines one case-folded label
\* twice, with different urls, and the table holds the first
C4_Witness ==
  LET defs == DefsOf(input)
  IN C4_Witness_defs(defs)

-----------------------------------------------------------------------------
(* C3: link references resolve case-insensitively *)

\* the anchor processLink writes for a resolved link
Anchor(url, title, content) ==
  <<"<","a"," ","h","r","e","f","=","\"">> \o url \o <<"\"">>
  \o (IF title # <<>> THEN <<" ","t","i","t","l","e","=","\"">> \o title \o <<"\"">> ELSE <<>>)
  \o <<" ",">">> \o content \o <<"<","/","a",">">>

\* the closing line refers to label l, and the document defines a label that
\* equals l after case folding
RefersDefined(l) ==
  /\ TailOf(input) \in {RefFull(l), RefShort(l), RefShortEol(l), RefShortEmph(l)}
  /\ \E k \in 1..Len(DefsOf(input)) : lower(DefsOf(input)[k].label) = lower(l)

\* the closing line is written out as a link to the first definition of l
Resolved(l) ==
  LET d == FirstDef(DefsOf(input), lower(l))
  IN find(m_out, Anchor(d.url, d.title,
                        IF TailOf(input) = RefFull(l) THEN <<"t">> ELSE l)) # -1

\* C3 (as claimed): once the definitions are stored, every reference
\* [text][L'] and every shortcut [L'] whose label equals a defined label
\* after case folding is written as a link with the url and title of the
\* definition; a reference whose case-folded label is not in the table is
\* no match: processLink returns 0 and the text stays as it is.
C3_ResolvesEveryReference ==
  pc = "post" =>
    \A l \in RefLabels :
      /\ RefersDefined(l) => Resolved(l)
      /\ (TailOf(input) = RefFull(l) /\ ~hasLinkRef(m_linkRefs, lower(l))) =>
           LET k == find(cur, RefFull(l))
           IN /\ k # -1
              /\ processLink(cur, k, k, Len(cur)-k, Cx).ret = 0
              /\ find(m_out, RefFull(l)) # -1

-----------------------------------------------------------------------------
(* Specification of tables: isTableBlock and writeTableBlock on pipe tables *)

\* most columns of a table
MaxCols == 3
\* most body rows of a table
MaxBodyRows == 2

\* a row of cells between pipes
RECURSIVE RenderCells(_)
RenderCells(cells) ==
  IF cells = <<>> THEN <<>>
  ELSE IF Len(cells) = 1 THEN cells[1]
  ELSE cells[1] \o <<"|">> \o RenderCells(Tail(cells))

\* with pipes at both ends, or bare
RenderRow(cells, piped) ==
  (IF piped THEN <<"|">> \o RenderCells(cells) \o <<"|">> ELSE RenderCells(cells))
  \o <<NL>>

RECURSIVE RenderRows(_)
RenderRows(rows) ==
  IF rows = <<>> THEN <<>>
  ELSE RenderRow(Head(rows), TRUE) \o RenderRows(Tail(rows))

RowsOf(n, S) == [1..n -> S]

\* the cells of a separator row
SepCells ==
  {<<"-">>, <<":","-","-","-">>, <<"-","-","-",":">>, <<":","-",":">>,
   <<" ",":","-","-"," ">>, <<":">>}

\* tables that differ in their separator row, some with a separator row of
\* another width than the header
AlignTables ==
  UNION { { RenderRow([c \in 1..n |-> <<"h">>], piped) \o RenderRow(sep, piped)
            \o RenderRow([c \in 1..n |-> <<"a">>], piped) :
              sep \in UNION { IF m = n THEN RowsOf(m, SepCells)
                              ELSE RowsOf(m, {<<"-">>}) : m \in 1..MaxCols },
              piped \in BOOLEAN }
          : n \in 1..MaxCols }

BodyCells == {<<"a">>, <<"^">>, <<>>}

\* tables that differ in their header and body cells
SpanTables ==
  UNION { { RenderRow(h, TRUE) \o RenderRow([c \in 1..n |-> <<"-">>], TRUE)
            \o RenderRows(body) :
              h \in RowsOf(n, {<<"h">>, <<>>}),
              body \in UNION { RowsOf(b, RowsOf(n, BodyCells))
                               : b \in 1..MaxBodyRows } }
          : n \in 1..MaxCols }

\* one-column tables with a body row that is nothing but pipes
PipeTables ==
  { <<"|","h","|",NL,"|","-","|",NL,"|","|","|",NL>>,
    <<"|","h","|",NL,"|","-","|",NL,"|","a","|",NL,"|","|","|",NL>> }

\* a header row and a separator row of the same width, followed by nothing,
\* by a line of text, or by a row of any width
ShortTables ==
  UNION { { RenderRow([c \in 1..n |-> <<"h">>], TRUE)
            \o RenderRow([c \in 1..n |-> <<"-">>], TRUE) \o rest :
              rest \in {<<>>, <<"t", NL>>}
                \cup { RenderRow([c \in 1..m |-> <<"a">>], TRUE)
                       : m \in 1..MaxCols } }
          : n \in 1..MaxCols }

TableInputs == AlignTables \cup SpanTables \cup PipeTables \cup ShortTables

NoTable ==
  [ret |-> 0, out |-> <<>>, columns |-> 0, columnAlignment |-> <<>>,
   rows |-> <<>>, overflow |-> FALSE]

TableInit ==
  /\ pc = "call"
  /\ input \in TableInputs
  /\ ret = NoTable
  /\ EngineInit
  /\ CallerIdle

\* processBlocks: else if (isTableBlock(data+pi,size-pi))
CallIsTableBlock ==
  /\ pc = "call"
  /\ pc' = IF isTableBlock(input, 0, Len(input)) THEN "accepted" ELSE "rejected"
  /\ UNCHANGED <<input, ret, engine, caller>>

\* CallWriteTableBlock from the value of w on
CallWriteTableBlock_w(w) ==
  \/ /\ ret' = w
     /\ m_out' = m_out \o w.out
     /\ pc' = "table"
  \/ /\ w.overflow
     /\ pc' = "crashed"
     /\ UNCHANGED <<ret, m_out>>

\* processBlocks: i=pi+writeTableBlock(data+pi,size-pi).  Where the call
\* writes past the end of rowContents the behaviour is undefined: it goes on
\* as if the write had hit nothing, or the run is killed.
CallWriteTableBlock ==
  /\ pc = "accepted"
  /\ LET w == writeTableBlock(input, 0, Len(input))
     IN CallWriteTableBlock_w(w)
  /\ UNCHANGED <<input, m_linkRefs, m_indentLevel, autoId, caller>>

TableNext == CallIsTableBlock \/ CallWriteTableBlock

TableSpec == TableInit /\ [][TableNext]_vars

-----------------------------------------------------------------------------
(* C6: every emitted row accounts for all the columns of the table *)

\* the sum of the colspan values of the cells written for a row
RECURSIVE SpanSum(_)
SpanSum(cells) ==
  IF cells = <<>> THEN 0 ELSE Head(cells).colSpan + SpanSum(Tail(cells))

\* C6: for every accepted table block with C columns, each row written, the
\* header row and every body row, accounts for exactly C columns: the
\* colspan values of the cells written and the number of cells passed over
\* as the continuation of a row span add up to C
C6_RowsAccountForColumns ==
  pc = "table" =>
    /\ Len(ret.rows) >= 1
    /\ \A r \in 1..Len(ret.rows) :
         SpanSum(ret.rows[r].cells) + ret.rows[r].skipped = ret.columns

\* a table of three columns is written with a cell that spans columns in
\* one row and a cell passed over in another
C6_Witness ==
  /\ pc = "table"
  /\ ret.columns = 3
  /\ \E r \in 1..Len(ret.rows) :
       \E k \in 1..Len(ret.rows[r].cells) : ret.rows[r].cells[k].colSpan > 1
  /\ \E r \in 1..Len(ret.rows) : ret.rows[r].skipped > 0

-----------------------------------------------------------------------------
(* C7: the alignment of a column comes from its cell of the separator row *)

\* the cells of a row as written: the texts between the pipes, without the
\* pipe a row may start and end with
RECURSIVE SplitPipes(_,_)
SplitPipes(t, acc) ==
  IF t = <<>> THEN <<acc>>
  ELSE IF t[1] = "|" THEN <<acc>> \o SplitPipes(Tail(t), <<>>)
  ELSE SplitPipes(Tail(t), Append(acc, t[1]))

CellsOfRow(line) ==
  LET a == IF line # <<>> /\ Head(line) = "|" THEN Tail(line) ELSE line
      b == IF a # <<>> /\ a[Len(a)] = "|" THEN SubSeq(a, 1, Len(a)-1) ELSE a
  IN SplitPipes(b, <<>>)

\* the alignment the separator cell asks for: left when its first character
\* other than a space is a colon, right when its last marker is a colon
ExpectedAlign(cell) ==
  LET marks == SelectSeq(cell, LAMBDA ch : ch \in {":", "-"})
      text == SelectSeq(cell, LAMBDA ch : ch # SP)
      left == text # <<>> /\ Head(text) = ":"
      right == marks # <<>> /\ marks[Len(marks)] = ":"
  IN IF left /\ right THEN AlignCenter
     ELSE IF left THEN AlignLeft
     ELSE IF right THEN AlignRight
     ELSE AlignNone

\* how often t occurs in s
Occurrences(s, t) == Cardinality({k \in 0..Len(s) : OccursAt(s, t, k)})

\* the cells written for the columns the separator row aligns as a
CellsAligned(sep, a) ==
  LET Row(r) == Cardinality({k \in 1..Len(ret.rows[r].cells) :
                   ExpectedAlign(sep[ret.rows[r].cells[k].col + 1]) = a})
      Sum[r \in 0..Len(ret.rows)] == IF r = 0 THEN 0 ELSE Sum[r-1] + Row(r)
  IN Sum[Len(ret.rows)]

\* C7: each column is aligned as its cell of the separator row tells: left
\* iff the first character of the cell other than a space is a colon and
\* its last marker is not, right iff only the last marker is a colon, center
\* iff both, none otherwise; every cell written for the column carries that
\* alignment, in the markup too
C7_AlignmentFromSeparator ==
  pc = "table" =>
    LET sep == CellsOfRow(Lines(input, <<>>)[2])
    IN /\ Len(sep) >= ret.columns
       /\ \A c \in 1..ret.columns :
            ret.columnAlignment[c] = ExpectedAlign(sep[c])
       /\ \A r \in 1..Len(ret.rows) : \A k \in 1..Len(ret.rows[r].cells) :
            ret.rows[r].cells[k].align
              = ExpectedAlign(sep[ret.rows[r].cells[k].col + 1])
       /\ \A a \in {AlignNone, AlignLeft, AlignCenter, AlignRight} :
            Occurrences(m_out, <<"T","a","b","l","e","H","e","a","d">> \o AlignName(a))
            + Occurrences(m_out, <<"T","a","b","l","e","B","o","d","y">> \o AlignName(a))
              = CellsAligned(sep, a)

\* the table with the separator row :---|---: is written with its first
\* column aligned left and its second aligned right
C7_Witness ==
  /\ pc = "table"
  /\ Lines(input, <<>>)[2] = <<":","-","-","-","|","-","-","-",":">>
  /\ ret.columnAlignment = <<AlignLeft, AlignRight>>
  /\ Len(ret.rows) = 2
  /\ \A r \in 1..2 :
       /\ Len(ret.rows[r].cells) = 2
       /\ ret.rows[r].cells[1].align = AlignLeft
       /\ ret.rows[r].cells[2].align = AlignRight

-----------------------------------------------------------------------------
(* Specification of Markdown::process: parseInput runs it on a document,   *)
(* and then once more, with a Markdown object of its own each time         *)

\* most lines in a document
MaxLines == 3

\* most runs of process in a behaviour
MaxRuns == 2

\* the lines documents are made of
ProcessLines ==
  { <<"#"," ","T">>, <<"T">>, <<"=","=","=">>, <<"[","a","]",":"," ","/","x">>, <<"[","a","]">>, <<"~","~","~">>, <<">"," ","q">>, <<>>,
    <<"|","h","|">>, <<"|","-","|">>, <<"|","|","|">> }

RECURSIVE JoinLines(_)
JoinLines(ls) ==
  IF ls = <<>> THEN <<>> ELSE Head(ls) \o <<NL>> \o JoinLines(Tail(ls))

\* the documents: up to MaxLines lines, and the one-line documents without
\* their newline, and the empty document
ProcessDocs ==
  { JoinLines(ls) : ls \in SeqsUpTo(ProcessLines, MaxLines) }
    \cup ProcessLines

\* the configurations: TOC_INCLUDE_HEADINGS 0 or 1
ProcessConfigs == { [DefaultConfig EXCEPT !.toc = t] : t \in {0, 1} }

\* parseInput: Markdown markdown(fileName,1,0); int lineNr=1;
ProcessInit ==
  /\ pc = "process"
  /\ input \in ProcessDocs
  /\ ret = NoFence
  /\ EngineInit
  /\ cur = <<>>
  /\ curIndent = 0
  /\ loop = [i |-> 0, end |-> 0]
  /\ config \in ProcessConfigs
  /\ startNewlines = 1
  /\ results = <<>>

\* parseInput once more, on the same document or on an empty one: a new
\* Markdown object and a new lineNr; the static autoId of extractTitleId
\* is the one of the run before
NextRun ==
  /\ pc = "returned"
  /\ Len(results) < MaxRuns
  /\ input' \in {input, <<>>}
  /\ m_out' = <<>>
  /\ m_linkRefs' = <<>>
  /\ m_indentLevel' = 0
  /\ startNewlines' = 1
  /\ pc' = "process"
  /\ UNCHANGED <<ret, autoId, cur, curIndent, loop, config, results>>

ProcessNext ==
  \/ Start \/ Detab
  \/ QuotationsEntry \/ QuotationsIter \/ QuotationsExit
  \/ BlocksEntry \/ BlocksIter \/ BlocksExit
  \/ InlineEntry \/ InlineIter \/ InlineExit
  \/ Post \/ NextRun

ProcessSpec == ProcessInit /\ [][ProcessNext]_vars

-----------------------------------------------------------------------------
(* C8: determinism *)

\* C8: two runs of process on the same input under the same configuration
\* return the same bytes, also when one run follows the other in the same
\* process and the input has headers that get generated ids
C8_SameInputSameOutput ==
  \A a, b \in 1..Len(results) :
    results[a].input = results[b].input => results[a].result = results[b].result

-----------------------------------------------------------------------------
(* C9: termination *)

\* C9: process runs to its return and yields output for every input: no run
\* is killed on the way, every iteration of the loop of processInline moves
\* the scan position forward, and every iteration of the line loops of
\* processQuotations and processBlocks moves the line start i forward
C9_AdvancesAndReturns ==
  /\ [](pc # "crashed")
  /\ [][pc = "inline" /\ pc' = "inline" => (loop.end < loop'.end)]_vars
  /\ [][(pc \in {"quotations", "blocks"}) /\ pc' = pc
          => (loop.i < loop'.i)]_vars

-----------------------------------------------------------------------------
(* C10: the empty input *)

\* C10: on the empty input process returns the empty input at once: no
\* stage runs, and startNewlines, the link references and the indent level
\* stay as they were
C10_EmptyInputReturned ==
  [][pc = "process" /\ input = <<>> =>
       /\ pc' = "returned"
       /\ results' = Append(results, [input |-> <<>>, result |-> <<>>])
       /\ UNCHANGED <<startNewlines, m_linkRefs, m_indentLevel, m_out, cur,
                      autoId>>]_vars

\* a second run, on the empty input, has returned after a first run that
\* wrote a header with a generated id
C10_Witness ==
  /\ pc = "returned"
  /\ input = <<>>
  /\ Len(results) = 2
  /\ results[1].input = <<"#"," ","T",NL>>
  /\ autoId = 1
  /\ results[2] = [input |-> <<>>, result |-> <<>>]
  /\ startNewlines = 1

-----------------------------------------------------------------------------
(* Specification of code spans: process run on a text of backtick runs     *)
(* with a character between them, and run once more on its own result when *)
(* that holds an escaped character                                          *)

\* longest run of backticks
MaxTicks == 3

\* what stands between two runs of backticks
SpanTexts == {<<>>, <<"a">>, <<"@">>, <<NL>>}

\* an opening run and up to three more runs
SpanInputs ==
  { Rep(BT, k) \o t1 \o Rep(BT, j) \o t2 \o Rep(BT, l) \o t3 \o Rep(BT, m) :
      k \in 1..MaxTicks, j \in 0..MaxTicks, l \in 0..MaxTicks,
      m \in 0..(MaxTicks-1), t1 \in SpanTexts, t2 \in SpanTexts,
      t3 \in SpanTexts }

SpanInit ==
  /\ pc = "process"
  /\ input \in SpanInputs
  /\ ret = NoFence
  /\ EngineInit
  /\ cur = <<>>
  /\ curIndent = 0
  /\ loop = [i |-> 0, end |-> 0]
  /\ config = DefaultConfig
  /\ startNewlines = 1
  /\ results = <<>>

\* the caller feeds the result of the first run back as Markdown, to a new
\* Markdown object
Refeed ==
  /\ pc = "returned"
  /\ Len(results) = 1
  /\ find(results[1].result, <<"\\">>) # -1
  /\ input' = results[1].result
  /\ m_out' = <<>>
  /\ m_linkRefs' = <<>>
  /\ m_indentLevel' = 0
  /\ startNewlines' = 1
  /\ pc' = "process"
  /\ UNCHANGED <<ret, autoId, cur, curIndent, loop, config, results>>

\* these texts end in a newline, which no handler consumes: processInline
\* leaves its loop by the break, never by the loop condition
SpanNext ==
  \/ Start \/ Detab
  \/ QuotationsEntry \/ QuotationsIter \/ QuotationsExit
  \/ BlocksEntry \/ BlocksIter \/ BlocksExit
  \/ InlineEntry \/ InlineIter
  \/ Post \/ Refeed

SpanSpec == SpanInit /\ [][SpanNext]_vars

-----------------------------------------------------------------------------
(* C11: escaping is applied once *)

\* the number of backslashes right before position k of o
RECURSIVE EscapesBefore(_,_)
EscapesBefore(o, k) ==
  IF k > 1 /\ o[k-1] = "\\" THEN 1 + EscapesBefore(o, k-1) ELSE 0

\* for each command character @ of o, in order, the backslashes before it
EscapeRuns(o) ==
  LET at == SelectSeq([k \in 1..Len(o) |-> k], LAMBDA k : o[k] = "@")
  IN [n \in 1..Len(at) |-> EscapesBefore(o, at[n])]

\* C11: when the result of a run is run through process again, no escaped
\* command character gets a further escape character in front of it
C11_EscapedOnce ==
  Len(results) = 2 /\ results[2].input = results[1].result =>
    EscapeRuns(results[2].result) = EscapeRuns(results[1].result)

-----------------------------------------------------------------------------
(* C20: code span matching *)

\* the end of the first run of exactly k backticks at or after j, with at
\* most one newline on the way; -1 when there is none
RECURSIVE ExactCloser(_,_,_,_,_)
ExactCloser(buf, j, lim, k, nl) ==
  IF j >= lim THEN -1
  ELSE IF At(buf, j) = NL
  THEN IF nl + 1 >= 2 THEN -1 ELSE ExactCloser(buf, j+1, lim, k, nl+1)
  ELSE IF At(buf, j) = BT
  THEN LET e == SkipIn(buf, j, lim, {BT})
       IN IF e - j = k THEN e ELSE ExactCloser(buf, e, lim, k, nl)
  ELSE ExactCloser(buf, j+1, lim, k, nl)

\* C20: when the inline pass comes to a run of k backticks, the span ends
\* with the next run of exactly k backticks, at most one newline away, and
\* the scan goes on behind it; without such a run the handler reports no
\* match: the backtick is emitted as it stands and the scan moves by one
C20_ClosedByExactRun ==
  [][pc = "inline" /\ loop.i < Len(cur) =>
       LET size == Len(cur)
           t == SkipNotIn(cur, loop.end, size, ActionChars)
           k == SkipIn(cur, t, size, {BT}) - t
           e == ExactCloser(cur, t+k, size, k, 0)
       IN (t < size /\ At(cur, t) = BT) =>
            IF e = -1
            THEN /\ loop'.i = t
                 /\ loop'.end = t+1
                 /\ m_out' = m_out \o Frag(cur, loop.i, t-loop.i)
            ELSE /\ loop'.i = e
                 /\ loop'.end = e]_vars

-----------------------------------------------------------------------------
(* extractPageTitle *)

\* the end of the line that holds position k: behind its newline, or size
EndOfTitleLine(buf, k, size) ==
  LET n == SkipNotIn(buf, k, size, {NL})
  IN IF n < size THEN n + 1 ELSE size

\* extractPageTitle(docs,id,prepend) of a Markdown object with indent level
\* indentLevel: the title returned, docs, id and prepend as it leaves them,
\* and the counter of extractTitleId
extractPageTitle(docs, id, indentLevel, toc, autoIdNow) ==
  LET size == Len(docs)
      i == SkipIn(docs, 0, size, {SP, NL})
      prepend == Cardinality({k \in 0..i-1 : At(docs, k) = NL})
      end1 == EndOfTitleLine(docs, i, size)
      end2 == EndOfTitleLine(docs, end1, size)
      line1 == Frag(docs, i, end1-i-1)
      t1 == extractTitleId(line1, 0, toc, autoIdNow)
      a == isAtxHeader(docs, i, end1-i, FALSE, indentLevel, toc, autoIdNow)
  IN IF i >= size
     THEN [title |-> <<>>, docs |-> <<>>, id |-> id, prepend |-> prepend,
           autoId |-> autoIdNow]
     ELSE IF end1 < size
             /\ isHeaderline(docs, end1, size-end1, FALSE, indentLevel).ret # 0
     THEN [title |-> t1.title,
           docs |-> <<NL, NL>> \o SubSeq(docs, end2+1, size),
           id |-> t1.id, prepend |-> prepend, autoId |-> t1.autoId]
     ELSE IF i < end1 /\ a.ret > 0
     THEN [title |-> a.header,
           docs |-> <<NL>> \o SubSeq(docs, end1+1, size),
           id |-> a.id, prepend |-> prepend, autoId |-> a.autoId]
     ELSE [title |-> a.header, docs |-> docs,
           id |-> extractTitleId(a.header, 0, toc, autoIdNow).id,
           prepend |-> prepend, autoId |-> a.autoId]

-----------------------------------------------------------------------------
(* Specification of extractPageTitle: parseInput calls it on the text of a *)
(* Markdown file, with the Markdown object it has just made                 *)

\* most lines in the text of a page
MaxTitleLines == 3

TitleLines == { <<"T">>, <<" ","T">>, <<"#"," ","T">>, <<"#","#"," ","T"," ","#">>, <<"#","T">>, <<"=","=","=">>, <<"-","-","-">>, <<"=">>, <<>>, <<" ">> }

\* texts of up to MaxTitleLines lines, the last one with or without newline
TitleDocs ==
  LET full == { JoinLines(ls) : ls \in SeqsUpTo(TitleLines, MaxTitleLines) }
  IN full \cup { SubSeq(d, 1, Len(d)-1) : d \in full \ {<<>>} }

TitleInit ==
  /\ pc = "parseInput"
  /\ input \in TitleDocs
  /\ ret = NoFence
  /\ EngineInit
  /\ CallerIdle

\* parseInput: title=markdown.extractPageTitle(docs,id,prepend)
CallExtractPageTitle ==
  /\ pc = "parseInput"
  /\ LET r == extractPageTitle(input, <<>>, m_indentLevel, config.toc, autoId)
     IN /\ ret' = [title |-> r.title, docs |-> r.docs, id |-> r.id,
                   prepend |-> r.prepend]
        /\ autoId' = r.autoId
  /\ pc' = "titled"
  /\ UNCHANGED <<input, m_out, m_linkRefs, m_indentLevel, caller>>

TitleNext == CallExtractPageTitle

TitleSpec == TitleInit /\ [][TitleNext]_vars

-----------------------------------------------------------------------------
(* C12: extractPageTitle *)

IsBlankLine(l) == \A k \in 1..Len(l) : l[k] = SP

\* a Setext underline: two or more = or two or more -, spaces around them
IsUnderline(l) ==
  LET u == stripWhiteSpace(l)
  IN /\ Len(u) >= 2
     /\ \E c \in {"=", "-"} : \A k \in 1..Len(u) : u[k] = c

\* an ATX header line: #'s first, and text set off by a space after a single #
IsAtxLine(l) ==
  LET u == StripLeft(l)
  IN /\ u # <<>>
     /\ u[1] = "#"
     /\ ~(Len(u) >= 2 /\ u[2] \notin {"#", SP})
     /\ Len(u) >= 2

\* the text of an ATX header line: without the #'s and spaces around it
RECURSIVE StripLeadHashes(_)
StripLeadHashes(u) ==
  IF u # <<>> /\ u[1] = "#" THEN StripLeadHashes(Tail(u)) ELSE u
AtxText(l) == StripHashes(StripLeft(StripLeadHashes(StripLeft(l))))

\* the text behind the first m newlines of t
RECURSIVE RestAfter(_,_)
RestAfter(t, m) ==
  IF m = 0 \/ t = <<>> THEN t
  ELSE RestAfter(Tail(t), IF t[1] = NL THEN m-1 ELSE m)

\* docs is the text rest, behind the newlines left in place of removed lines
RemovedUpTo(docs, rest) == \E n \in 0..2 : docs = Rep(NL, n) \o rest

\* C12: extractPageTitle returns the first non-blank line as title and
\* removes it and the next line when the next line is a Setext underline;
\* else returns the text of the first non-blank line and removes that line
\* when it is an ATX header; and in every other case, a text of blanks and
\* newlines included, returns the empty title and leaves docs as it was
C12_PageTitleAsClaimed ==
  pc = "titled" =>
    LET ls == Lines(input, <<>>)
        nb == {k \in 1..Len(ls) : ~IsBlankLine(ls[k])}
        f == CHOOSE k \in nb : \A j \in nb : k <= j
    IN IF nb # {} /\ f < Len(ls) /\ IsUnderline(ls[f+1])
       THEN /\ stripWhiteSpace(ret.title) = stripWhiteSpace(ls[f])
            /\ RemovedUpTo(ret.docs, RestAfter(input, f+1))
       ELSE IF nb # {} /\ IsAtxLine(ls[f])
       THEN /\ stripWhiteSpace(ret.title) = AtxText(ls[f])
            /\ RemovedUpTo(ret.docs, RestAfter(input, f))
       ELSE /\ ret.title = <<>>
            /\ ret.docs = input

-----------------------------------------------------------------------------
(* Specification of ATX headers: writeOneLineHeaderOrRuler on a header     *)
(* line, for a page with a title (indent level -1) or without (0)           *)

\* the numbers of #'s of a header; isAtxHeader counts up to 6
HeaderLevels == 1..6

\* the values of TOC_INCLUDE_HEADINGS
TocDepths == 0..3

HeaderTexts == { <<"T">>, <<"a"," ","b">> }

\* what follows the text: nothing, closing #'s, an id
HeaderSuffixes == { <<>>, <<" ","#">>, <<" ","{","#","i","}">> }

HeaderLine(n, w, sfx, nl) == Rep("#", n) \o <<SP>> \o w \o sfx \o nl

HeaderInputs ==
  { HeaderLine(n, w, sfx, nl) :
      n \in HeaderLevels, w \in HeaderTexts, sfx \in HeaderSuffixes,
      nl \in {<<>>, <<NL>>} }

HeaderInit ==
  /\ pc = "header"
  /\ input \in HeaderInputs
  /\ ret = NoFence
  /\ m_out = <<>>
  /\ m_linkRefs = <<>>
  /\ config \in { [DefaultConfig EXCEPT !.toc = t, !.indentLevel = l] :
                    t \in TocDepths, l \in {0, -1} }
  /\ m_indentLevel = config.indentLevel
  /\ autoId \in {0, 1}
  /\ cur = input
  /\ curIndent = 0
  /\ loop = [i |-> 0, end |-> 0]
  /\ startNewlines = 0
  /\ results = <<>>

\* writeOneLineHeaderOrRuler(data,size) on the line
CallWriteOneLineHeaderOrRuler ==
  /\ pc = "header"
  /\ LET w == writeOneLineHeaderOrRuler(cur, 0, Len(cur), m_indentLevel,
                                        config.toc, autoId)
     IN /\ m_out' = m_out \o w.out
        /\ m_indentLevel' = w.indentLevel
        /\ autoId' = w.autoId
  /\ pc' = "headed"
  /\ UNCHANGED <<input, ret, m_linkRefs, caller>>

HeaderNext == CallWriteOneLineHeaderOrRuler

HeaderSpec == HeaderInit /\ [][HeaderNext]_vars

-----------------------------------------------------------------------------
(* C13: ATX header emission *)

\* the level of a header of n #'s under indent level l, once isAtxHeader
\* has taken a first-level header of a titled page back to indent level 0
AdjustedLevel(n, l) == IF n = 1 /\ l = -1 THEN 1 ELSE n + l

SectionCommand(level) ==
  CASE level = 1 -> <<"@","s","e","c","t","i","o","n"," ">>
    [] level = 2 -> <<"@","s","u","b","s","e","c","t","i","o","n"," ">>
    [] level = 3 -> <<"@","s","u","b","s","u","b","s","e","c","t","i","o","n"," ">>
    [] level = 4 -> <<"@","p","a","r","a","g","r","a","p","h"," ">>

\* what is emitted for a header of level L with this id and title
HeaderOut(level, id, title) ==
  IF id # <<>> /\ level < 5
  THEN SectionCommand(level) \o id \o <<SP>> \o title \o <<NL>>
  ELSE (IF id # <<>> THEN <<"\\","a","n","c","h","o","r"," ">> \o id \o <<"\\","i","l","i","n","e","b","r"," ">> ELSE <<>>)
       \o <<"<","h">> \o setNum(level) \o <<">">> \o title \o <<"<","/","h">> \o setNum(level)
       \o <<">", NL>>

\* the id of a header: the explicit one, else a generated one when the
\* level idLevel is within the depth, else none
HeaderId(sfx, idLevel, depth, counter) ==
  IF sfx = <<" ","{","#","i","}">> THEN <<"i">>
  ELSE IF 1 <= idLevel /\ idLevel <= depth
  THEN <<"a","u","t","o","t","o","c","_","m","d">> \o setNum(counter)
  ELSE <<>>

\* C13: the id is generated when the adjusted level L is within
\* the TOC depth, and the header is emitted as the sectioning command of L
\* when it has an id and L < 5, else as <hL>, behind an anchor if it has an id
C13_HeaderByAdjustedLevel ==
  [][pc = "header" =>
       \A n \in HeaderLevels, w \in HeaderTexts, sfx \in HeaderSuffixes,
          nl \in {<<>>, <<NL>>} :
         input = HeaderLine(n, w, sfx, nl) =>
           LET L == AdjustedLevel(n, m_indentLevel)
           IN m_out' = HeaderOut(L, HeaderId(sfx, L, config.toc, autoId), w)]_vars

-----------------------------------------------------------------------------
(* C14: a table needs two lines *)

\* the lines from the k-th on that have cols columns, up to the first that
\* has not
RECURSIVE RowsOfWidth(_,_,_)
RowsOfWidth(ls, k, cols) ==
  IF k > Len(ls) \/ Len(CellsOfRow(ls[k])) # cols
     \/ \A j \in 1..Len(ls[k]) : ls[k][j] # "|"
  THEN 0
  ELSE 1 + RowsOfWidth(ls, k+1, cols)

\* a header row and below it a separator row of :, -, | and spaces with as
\* many columns
HeaderAndSeparator(ls) ==
  /\ Len(ls) >= 2
  /\ \E j \in 1..Len(ls[1]) : ls[1][j] = "|"
  /\ \E j \in 1..Len(ls[2]) : ls[2][j] = "|"
  /\ \A j \in 1..Len(ls[2]) : ls[2][j] \in {":", "-", "|", SP}
  /\ Len(CellsOfRow(ls[1])) = Len(CellsOfRow(ls[2]))

\* C14: a header row and a separator row of the same number of columns are
\* accepted as a table whatever follows them, and the table then has the
\* header row and one row for each line that follows up to the first line
\* with another number of columns
C14_TwoLinesMakeATable ==
  LET ls == Lines(input, <<>>)
  IN HeaderAndSeparator(ls) =>
       /\ pc # "rejected"
       /\ pc = "table" =>
            Len(ret.rows) = 1 + RowsOfWidth(ls, 3, Len(CellsOfRow(ls[1])))

-----------------------------------------------------------------------------
(* writeBlockQuote as a state machine: one step for each iteration of its   *)
(* loop over the lines, and one for the closing markers behind the loop     *)

BlockQuoteOpen == <<"<","b","l","o","c","k","q","u","o","t","e",">">>
BlockQuoteOpenZwj == <<"<","b","l","o","c","k","q","u","o","t","e",">","&","z","w","j",";">>
BlockQuoteClose == <<"<","/","b","l","o","c","k","q","u","o","t","e",">">>

\* the markers with one opener fewer than the level goes up by
BlockQuoteMarkers_oneFewer(curLevel, level) ==
  IF level > curLevel
  THEN Rep2(BlockQuoteOpen, level-2-curLevel) \o BlockQuoteOpenZwj
  ELSE IF level < curLevel
  THEN Rep2(BlockQuoteClose, curLevel-level)
  ELSE <<>>

\* the markers written when the quote level goes from curLevel to level
BlockQuoteMarkers(curLevel, level) ==
  IF level > curLevel
  THEN Rep2(BlockQuoteOpen, level-1-curLevel) \o BlockQuoteOpenZwj
  ELSE IF level < curLevel
  THEN Rep2(BlockQuoteClose, curLevel-level)
  ELSE <<>>

\* BlockQuoteLine from the quote level of the line on
BlockQuoteLine_level(buf, p, i, curLevel, end, indent, level) ==
  [level |-> level, end |-> end,
   i |-> IF level = 0 THEN i ELSE end,
   out |-> BlockQuoteMarkers(curLevel, level)
           \o (IF level = 0 THEN <<>> ELSE Frag(buf, p+indent, end-indent))]

\* BlockQuoteLine from the scan of the markers on
BlockQuoteLine_q0(buf, p, size, i, curLevel, end, q0) ==
  LET disq == q0.j > 0 /\ At(buf, p+q0.j-1) = ">"
              /\ ~(q0.j = size \/ At(buf, p+q0.j) = NL)
      j == IF disq THEN q0.j-1 ELSE q0.j
      indent == IF disq THEN q0.indent-1 ELSE q0.indent
      level0 == IF disq THEN q0.level-1 ELSE q0.level
      level == IF level0 = 0 /\ At(buf, p+j-1) # NL THEN curLevel ELSE level0
  IN BlockQuoteLine_level(buf, p, i, curLevel, end, indent, level)

\* one iteration of while (i<size) in writeBlockQuote: the level of the
\* line, what is written, and i as the iteration leaves it
BlockQuoteLine(buf, p, size, i, curLevel) ==
  LET end == LineEnd(buf, p, size, i)
      q0 == QuoteLevel(buf, p, end, i, 0, i)
  IN BlockQuoteLine_q0(buf, p, size, i, curLevel, end, q0)

\* most lines of a quote block
MaxQuoteLines == 3

\* the first line of a block quote, and the lines that may follow
QuoteFirstLines == { <<">"," ","q">>, <<">",">"," ","q">>, <<">"," ",">"," ","q">> }
QuoteLines ==
  QuoteFirstLines \cup { <<"l","a","z","y">>, <<" ","l","a","z","y">>, <<>>, <<" "," ">>, <<">">>, <<">","q">>, <<">",">",">"," ","q">> }

QuoteInputs ==
  { JoinLines(<<f>> \o ls) :
      f \in QuoteFirstLines, ls \in SeqsUpTo(QuoteLines, MaxQuoteLines-1) }

\* processQuotations: i = pi+writeBlockQuote(data+pi,size-pi), up to the loop
QuoteInit ==
  /\ pc = "quote"
  /\ input \in QuoteInputs
  /\ cur = input
  /\ ret = NoFence
  /\ EngineInit
  /\ curIndent = 0
  /\ loop = [i |-> 0, end |-> 0, curLevel |-> 0]
  /\ config = DefaultConfig
  /\ startNewlines = 0
  /\ results = <<>>

\* QuoteIter from the value of s on
QuoteIter_s(s) ==
  /\ m_out' = m_out \o s.out
  /\ loop' = [i |-> s.i, end |-> s.end, curLevel |-> s.level]
  /\ pc' = IF s.level = 0 THEN "quote_end" ELSE "quote"

\* one iteration of the loop of writeBlockQuote, the break included
QuoteIter ==
  /\ pc = "quote"
  /\ loop.i < Len(cur)
  /\ LET s == BlockQuoteLine(cur, 0, Len(cur), loop.i, loop.curLevel)
     IN QuoteIter_s(s)
  /\ UNCHANGED <<input, ret, m_linkRefs, m_indentLevel, autoId, cur,
                 curIndent, config, startNewlines, results>>

\* the loop condition i<size of writeBlockQuote failing
QuoteLoopExit ==
  /\ pc = "quote"
  /\ ~(loop.i < Len(cur))
  /\ pc' = "quote_end"
  /\ UNCHANGED <<input, ret, engine, cur, curIndent, loop, config,
                 startNewlines, results>>

\* writeBlockQuote behind its loop: the end markers and the return
QuoteExit ==
  /\ pc = "quote_end"
  /\ m_out' = m_out \o Rep2(BlockQuoteClose, loop.curLevel)
  /\ ret' = [ret |-> loop.i]
  /\ pc' = "quoted"
  /\ UNCHANGED <<input, m_linkRefs, m_indentLevel, autoId, cur, curIndent,
                 loop, config, startNewlines, results>>

QuoteNext == QuoteIter \/ QuoteLoopExit \/ QuoteExit

QuoteSpec == QuoteInit /\ [][QuoteNext]_vars

\* the steps write what writeBlockQuote writes, and return what it returns
QuoteStepsAgree ==
  pc = "quoted" =>
    LET w == writeBlockQuote(input, 0, Len(input))
    IN m_out = w.out /\ ret.ret = w.ret

-----------------------------------------------------------------------------
(* C15: lazy continuation *)

\* the line of cur that starts at i, without its newline
LineAt(buf, i) == Frag(buf, i, SkipNotIn(buf, i, Len(buf), {NL}) - i)

\* C15: in writeBlockQuote a line without a > marker keeps the quote level
\* of the line before if it is not blank; a blank line, empty or of spaces
\* only, takes the level to 0 and ends the block
C15_LazyContinuation ==
  [][pc = "quote" /\ loop.i < Len(cur) =>
       LET line == LineAt(cur, loop.i)
       IN (\A k \in 1..Len(line) : line[k] # ">") =>
            IF IsBlankLine(line)
            THEN loop'.curLevel = 0 /\ pc' = "quote_end"
            ELSE loop'.curLevel = loop.curLevel /\ pc' = "quote"]_vars

-----------------------------------------------------------------------------
(* C16: balanced markers *)

Openers(out) == Occurrences(out, BlockQuoteOpen)
Closers(out) == Occurrences(out, BlockQuoteClose)

\* C16: the block quote markers written by writeBlockQuote are balanced:
\* while it runs, openers minus closers written so far is the current quote
\* level; a line that raises the level by d adds d openers, the last of them
\* with the &zwj; placeholder, and no closer; a line that lowers it by d adds
\* d closers and no opener; and when it returns as many closers as openers
\* have been written
C16_MarkersBalanced ==
  /\ [](pc \in {"quote", "quote_end"} =>
          Openers(m_out) - Closers(m_out) = loop.curLevel)
  /\ [](pc = "quoted" => Openers(m_out) = Closers(m_out))
  /\ [][pc = "quote" /\ loop.i < Len(cur) =>
          LET d == loop'.curLevel - loop.curLevel
              new == SubSeq(m_out', Len(m_out)+1, Len(m_out'))
          IN /\ d > 0 =>
                  /\ Openers(new) = d
                  /\ Closers(new) = 0
                  /\ Occurrences(new, BlockQuoteOpenZwj) = 1
                  /\ OccursAt(new, BlockQuoteOpenZwj,
                              (d-1) * Len(BlockQuoteOpen))
             /\ d < 0 => Closers(new) = 0 - d /\ Openers(new) = 0
             /\ d = 0 => Closers(new) = 0 /\ Openers(new) = 0]_vars

\* a quote of three lines has been written whose level went up by two on a
\* line and down on a later one, and which was still open at its end
C16_Witness ==
  /\ pc = "quoted"
  /\ input = <<">"," ","q",NL,">",">",">"," ","q",NL,">"," ","q",NL>>
  /\ Openers(m_out) = 3
  /\ Closers(m_out) = 3
  /\ loop.curLevel = 1

-----------------------------------------------------------------------------
(* detab on its own: process hands it the text with a newline at its end    *)

\* most characters of a text given to detab
MaxDetabChars == 4

\* the characters of the texts: white space, a letter, the non-breakable
\* space and another character of two bytes
DetabChars ==
  { <<"\t">>, <<SP>>, <<NL>>, <<"a">>, g_utf8_nbsp, <<"0xC3", "0xA9">> }

RECURSIVE DetabTexts(_)
DetabTexts(n) ==
  IF n = 0 THEN { <<>> }
  ELSE LET shorter == DetabTexts(n-1)
       IN shorter \cup { t \o c : t \in shorter, c \in DetabChars }

DetabInputs == DetabTexts(MaxDetabChars)

DetabInit ==
  /\ pc = "process"
  /\ input \in DetabInputs
  /\ ret = NoFence
  /\ EngineInit
  /\ CallerIdle

DetabNext == Start \/ Detab

DetabSpec == DetabInit /\ [][DetabNext]_vars

\* the text process gives to detab
DetabArg == IF input[Len(input)] # NL THEN Append(input, NL) ELSE input

-----------------------------------------------------------------------------
(* C17: tabs, columns and refIndent *)

\* bytes of the character of text s at position k
CharBytes(s, k) == IF At(s, k) \in {"0xC2", "0xC3"} THEN 2 ELSE 1

\* the text s from position k and column col on with each tab replaced by
\* the spaces up to the next multiple of tabSize, and every character other
\* than space, tab and newline shown as x
RECURSIVE ExpandedShape(_,_,_)
ExpandedShape(s, k, col) ==
  IF ~(k < Len(s)) THEN <<>>
  ELSE LET c == At(s, k)
           width == tabSize - (col % tabSize)
       IN CASE c = "\t" -> Rep(SP, width) \o ExpandedShape(s, k+1, col+width)
            [] c = NL -> <<NL>> \o ExpandedShape(s, k+1, 0)
            [] c = SP -> <<SP>> \o ExpandedShape(s, k+1, col+1)
            [] OTHER -> <<"x">> \o ExpandedShape(s, k+CharBytes(s, k), col+1)

\* the columns at which the characters other than space, tab and newline of
\* text s stand, from position k and column col on
RECURSIVE TextColumns(_,_,_)
TextColumns(s, k, col) ==
  IF ~(k < Len(s)) THEN {}
  ELSE LET c == At(s, k)
       IN CASE c = "\t" ->
                 TextColumns(s, k+1, col + tabSize - (col % tabSize))
            [] c = NL -> TextColumns(s, k+1, 0)
            [] c = SP -> TextColumns(s, k+1, col+1)
            [] OTHER -> {col} \cup TextColumns(s, k+CharBytes(s, k), col+1)

\* the least of a set of numbers, 0 for the empty set
LeastOr0(S) == IF S = {} THEN 0 ELSE CHOOSE m \in S : \A n \in S : m <= n

\* the text out with every character other than space, tab and newline
\* shown as x: the token of the non-breakable space is one character
RECURSIVE ShapeOf(_,_)
ShapeOf(out, k) ==
  IF ~(k < Len(out)) THEN <<>>
  ELSE LET c == At(out, k)
       IN IF c \in {"\t", NL, SP} THEN <<c>> \o ShapeOf(out, k+1)
          ELSE IF Frag(out, k, Len(g_doxy_nbsp)) = g_doxy_nbsp
          THEN <<"x">> \o ShapeOf(out, k+Len(g_doxy_nbsp))
          ELSE <<"x">> \o ShapeOf(out, k+CharBytes(out, k))

-----------------------------------------------------------------------------
(* C18: the non-breakable space *)

\* the text s from position k and column col on with its tabs expanded,
\* each non-breakable space replaced by the token and every other character
\* copied
RECURSIVE NbspRewritten(_,_,_)
NbspRewritten(s, k, col) ==
  IF ~(k < Len(s)) THEN <<>>
  ELSE LET c == At(s, k)
           width == tabSize - (col % tabSize)
           n == CharBytes(s, k)
       IN CASE c = "\t" -> Rep(SP, width) \o NbspRewritten(s, k+1, col+width)
            [] c = NL -> <<NL>> \o NbspRewritten(s, k+1, 0)
            [] Frag(s, k, 2) = g_utf8_nbsp ->
                 g_doxy_nbsp \o NbspRewritten(s, k+2, col+1)
            [] OTHER -> Frag(s, k, n) \o NbspRewritten(s, k+n, col+1)

\* C18: detab rewrites the non-breakable spaces of the text, wherever they
\* stand, to the token and copies every other character of several bytes: what
\* happens to a character is decided by the bytes at its own position.
C18_NbspRewrittenInPlace ==
  pc = "quotations_entry" => cur = NbspRewritten(DetabArg, 0, 0)

-----------------------------------------------------------------------------
(* The inline pass over texts that take every handler of m_actions, each    *)
(* with a construct it writes and with one it leaves alone                  *)

\* pieces of text: links, escapes and commands, dashes, emphasis, code
\* spans, quotes and tags, whole and cut short
DispatchPieces ==
  { <<"a">>, <<"[","a","]">>, <<"[","b","]">>, <<"[","a","]","(","/","x",")">>, <<"!","[","a","]","(","/","x",")">>, <<"[","T","O","C","]">>, <<"[","a">>, <<"\\","*">>, <<"\\","a">>,
    <<"@","a">>, <<"\\","-","-">>, <<"-">>, <<"-","-">>, <<"-","-","-">>, <<"<","!","-","-">>, <<"*","a","*">>, <<"*","a">>, <<"_","a","_">>, <<BT,"a",BT>>, <<BT,"a">>,
    <<"\"","a","\"">>, <<"\"","a">>, <<"<","a",">">>, <<"<">> }

\* a text of two pieces, with a newline at its end as the block pass leaves
\* it or without one as the content of a link or of an emphasis has it
DispatchTexts ==
  { f \o s \o g \o e :
      f \in DispatchPieces, s \in { <<>>, <<SP>> }, g \in DispatchPieces,
      e \in { <<>>, <<NL>> } }

\* the link references the block pass has found: none, or [a]: /x
DispatchRefs ==
  { <<>>, insertLinkRef(<<>>, <<"a">>, <<"/", "x">>, <<>>) }

DispatchInit ==
  /\ pc = "inline_entry"
  /\ input \in DispatchTexts
  /\ cur = input
  /\ ret = NoFence
  /\ m_out = <<>>
  /\ m_linkRefs \in DispatchRefs
  /\ m_indentLevel = 0
  /\ autoId = 0
  /\ curIndent = 0
  /\ loop = [i |-> 0, end |-> 0]
  /\ config = DefaultConfig
  /\ startNewlines = 0
  /\ results = <<>>

DispatchNext == InlineEntry \/ InlineIter \/ InlineExit

DispatchSpec == DispatchInit /\ [][DispatchNext]_vars

-----------------------------------------------------------------------------
(* C19: the protocol between processInline and its handlers *)

\* the next character with a handler, from end on
NextTrigger == SkipNotIn(cur, loop.end, Len(cur), ActionChars)

\* what the handler of that character returns and writes
HandlerResult == action(cur, 0, NextTrigger, Len(cur), Cx)

\* DispatchStep from the handler's result on
DispatchStep_r(end1, plain, r) ==
  /\ r.ret = 0 => /\ m_out' = m_out \o plain
                  /\ loop'.i = end1
                  /\ loop'.end = end1 + 1
  /\ r.ret > 0 => /\ m_out' = m_out \o plain \o r.out
                  /\ end1 + r.ret <= Len(cur)
                  /\ loop'.i = end1 + r.ret
                  /\ loop'.end = end1 + r.ret

\* an iteration of processInline: the text from i up to the next character
\* with a handler is copied; a handler that returns 0 has written nothing and
\* leaves its character, and only that, to be copied by the next iteration; a
\* handler that returns n > 0 has the scan go on n characters later with
\* nothing but its own text written for them
DispatchStep ==
  LET end1 == NextTrigger
      plain == Frag(cur, loop.i, end1 - loop.i)
  IN /\ Len(m_out') >= Len(m_out) + Len(plain)
     /\ SubSeq(m_out', 1, Len(m_out) + Len(plain)) = m_out \o plain
     /\ IF end1 >= Len(cur)
        THEN m_out' = m_out \o plain /\ pc' = "post"
        ELSE DispatchStep_r(end1, plain, HandlerResult)

\* C19: processInline copies every run of characters without a handler as it
\* is; when a handler returns 0 it has appended nothing, its one character is
\* written as it is and the scan goes on one character later; when a handler
\* returns n > 0, n characters are consumed and only what the handler wrote
\* stands for them.
C19_DispatchProtocol ==
  [][(pc = "inline" /\ loop.i < Len(cur)) => DispatchStep]_vars

\* both cases in one text: [b] is no link and stays, *a* is written as <em>
C19_Witness ==
  /\ pc = "post"
  /\ m_linkRefs = <<>>
  /\ input = <<"[","b","]"," ","*","a","*",NL>>
  /\ m_out = <<"[","b","]"," ","<","e","m",">","a","<","/","e","m",">",NL>>

-----------------------------------------------------------------------------
(* The block pass over documents of headers, with the indent level the      *)
(* caller set: -1 behind a page title, 0 without one                        *)

\* most items of a document of headers
MaxItems == 3

\* an item: an ATX header of 1 to 3 #'s, a Setext header with an underline
\* of = or of -, or two lines of text, the second one starting with =
LevelKinds == { "atx1", "atx2", "atx3", "eq", "dash", "text" }

LevelItem(k) ==
  CASE k = "atx1" -> <<"#"," ","T",NL>>
    [] k = "atx2" -> <<"#","#"," ","T",NL>>
    [] k = "atx3" -> <<"#","#","#"," ","T",NL>>
    [] k = "eq" -> <<"T",NL,"=","=","=",NL>>
    [] k = "dash" -> <<"T",NL,"-","-","-",NL>>
    [] k = "text" -> <<"T",NL,"=","x",NL>>

RECURSIVE LevelItems(_)
LevelItems(n) ==
  IF n = 0 THEN { <<>> }
  ELSE LET shorter == LevelItems(n-1)
       IN shorter \cup { Append(ks, k) : ks \in shorter, k \in LevelKinds }

RECURSIVE RenderItems(_)
RenderItems(ks) ==
  IF ks = <<>> THEN <<>> ELSE LevelItem(Head(ks)) \o RenderItems(Tail(ks))

LevelDocs == { RenderItems(ks) : ks \in LevelItems(MaxItems) \ { <<>> } }

LevelInit ==
  /\ pc = "blocks_entry"
  /\ input \in LevelDocs
  /\ cur = input
  /\ ret = NoFence
  /\ m_out = <<>>
  /\ m_linkRefs = <<>>
  /\ config \in { [DefaultConfig EXCEPT !.indentLevel = l] : l \in {0, -1} }
  /\ m_indentLevel = config.indentLevel
  /\ autoId = 0
  /\ curIndent = 0
  /\ loop = [i |-> 0, end |-> 0]
  /\ startNewlines = 0
  /\ results = <<>>

LevelNext == BlocksEntry \/ BlocksIter \/ BlocksExit

LevelSpec == LevelInit /\ [][LevelNext]_vars

-----------------------------------------------------------------------------
(* C21: the indent level in one pass *)

\* the level of an item as written: the number of #'s, 1 for = and 2 for -
RawLevel(k) ==
  CASE k = "atx1" -> 1 [] k = "atx2" -> 2 [] k = "atx3" -> 3
    [] k = "eq" -> 1 [] k = "dash" -> 2 [] k = "text" -> 0

\* what is emitted for an item at level L
ItemOut(k, L) ==
  CASE k \in {"atx1", "atx2", "atx3"} -> HeaderOut(L, <<>>, <<"T">>)
    [] k \in {"eq", "dash"} ->
         <<"<", "h">> \o setNum(L) \o <<">","T",NL,"<","/","h">> \o setNum(L) \o <<">",NL>>
    [] k = "text" -> LevelItem(k)

\* the output for the items ks from indent level l on: a header of level 1
\* takes l from -1 to 0 and is emitted at level 1; any other header is
\* emitted one level lower while l is -1 and at its own level after that
RECURSIVE LevelsOut(_,_)
LevelsOut(ks, l) ==
  IF ks = <<>> THEN <<>>
  ELSE LET k == Head(ks)
           r == RawLevel(k)
       IN IF r = 0 THEN ItemOut(k, 0) \o LevelsOut(Tail(ks), l)
          ELSE IF r = 1 /\ l = -1 THEN ItemOut(k, 1) \o LevelsOut(Tail(ks), 0)
          ELSE ItemOut(k, r + l) \o LevelsOut(Tail(ks), l)

\* the line examined by the next iteration and the line before it
ExaminedLine == LineAt(cur, loop.i)
LineBefore == IF loop.pi >= 0 THEN LineAt(cur, loop.pi) ELSE <<>>

\* a header of level 1 is at hand: an underline of = signs under a line, or
\* a line of one # and a title
Level1Seen ==
  \/ /\ loop.i < Len(cur)
     /\ IsUnderline(ExaminedLine)
     /\ stripWhiteSpace(ExaminedLine)[1] = "="
  \/ /\ Len(LineBefore) >= 2
     /\ Frag(StripLeft(LineBefore), 0, 2) = <<"#"," ">>

\* the lines of the document, each with its newline, as a call sees them
LineStarts == { k \in 0..Len(cur)-1 : k = 0 \/ At(cur, k-1) = NL }

\* C21: in one pass the indent level changes only from -1 to 0, and only at
\* a header of level 1 (one # or an underline of =); it never goes back to
\* -1.  While it is -1 every header is emitted one level lower, after the
\* change headers keep their levels.  A call that does not allow the
\* adjustment leaves the indent level alone.
C21_IndentLevelOnce ==
  /\ [](pc = "inline_entry" =>
          \A ks \in LevelItems(MaxItems) :
            input = RenderItems(ks) => cur = LevelsOut(ks, config.indentLevel))
  /\ [](\A k \in LineStarts :
          /\ isHeaderline(cur, k, Len(cur)-k, FALSE, m_indentLevel).indentLevel
               = m_indentLevel
          /\ isAtxHeader(cur, k, Len(cur)-k, FALSE, m_indentLevel, config.toc,
                         autoId).indentLevel = m_indentLevel)
  /\ [][m_indentLevel' # m_indentLevel =>
          /\ m_indentLevel = -1
          /\ m_indentLevel' = 0
          /\ Level1Seen]_vars

\* ## T at level -1 is emitted as h1, # T takes the level to 0, and the
\* second ## T is emitted as h2
C21_Witness ==
  /\ pc = "inline_entry"
  /\ config.indentLevel = -1
  /\ m_indentLevel = 0
  /\ input = <<"#","#"," ","T",NL,"#"," ","T",NL,"#","#"," ","T",NL>>
  /\ cur = <<"<","h","1",">","T","<","/","h","1",">",NL,"<","h","1",">","T","<","/","h","1",">",NL,"<","h","2",">","T","<","/","h","2",">",NL>>

-----------------------------------------------------------------------------
(* The block pass and the inline pass over texts that hold a block command, *)
(* at the start of a line and inside one, escaped and not                   *)

\* a start command, the name of its end command, and what stands before it
BlockForms ==
  { [pre |-> <<>>, start |-> <<"\\","c","o","d","e">>, marker |-> <<"e","n","d","c","o","d","e">>],
    [pre |-> <<>>, start |-> <<"@","v","e","r","b","a","t","i","m">>, marker |-> <<"e","n","d","v","e","r","b","a","t","i","m">>],
    [pre |-> <<>>, start |-> <<"\\","f","$">>, marker |-> <<"f","$">>],
    [pre |-> <<>>, start |-> <<"@","f","[">>, marker |-> <<"f","]">>],
    [pre |-> <<>>, start |-> <<"\\","f","(">>, marker |-> <<"f",")">>],
    [pre |-> <<>>, start |-> <<"\\","f","{">>, marker |-> <<"f","}">>],
    [pre |-> <<>>, start |-> <<"\\","s","t","a","r","t","u","m","l">>, marker |-> <<"e","n","d","u","m","l">>],
    [pre |-> <<>>, start |-> <<"\\","d","o","t">>, marker |-> <<"e","n","d","d","o","t">>],
    [pre |-> <<"{">>, start |-> <<"@","c","o","d","e">>, marker |-> <<"}">>] }

\* what a block holds: text the inline pass would rewrite, lines the block
\* pass would rewrite, and the placeholder of detab
BlockContents ==
  { <<" ","x"," ">>, <<" ","*","x","*"," ">>, <<NL,"#"," ","x",NL>>, <<" ","[","a","]","(","/","x",")"," ","-","-">>, <<NL," "," "," "," ","x",NL>>, <<" ","&","_","d","o","x","y","_","n","b","s","p",";"," ">> }

\* a block: the start command, the content, an escaped end command or none,
\* and the end command
EscapedEnds(marker) ==
  { <<>> } \cup { <<"\\", k>> \o marker \o <<SP>> : k \in {"\\", "@"} }

BlockTexts ==
  UNION { { f.pre \o f.start \o c \o x \o <<k>> \o f.marker :
              c \in BlockContents, k \in {"\\", "@"},
              x \in EscapedEnds(f.marker) } : f \in BlockForms }

\* what stands before the block on its line or on the line above
BlockBefore == { <<>>, <<"a"," ">>, <<"a",NL>>, <<"#"," ">>, <<"*","b"," ">>, <<"\\">> }

\* the texts: a block with something before and after it, and one text with
\* no command at all, a link reference that leaves nothing for the inline pass
BlockDocs ==
  { b \o t \o a \o <<NL>> :
      b \in BlockBefore, t \in BlockTexts, a \in { <<>>, <<" ","*","c","*">> } }
  \cup { <<"[","a","]",":"," ","/","x",NL>> }

BlockCmdInit ==
  /\ pc = "blocks_entry"
  /\ input \in BlockDocs
  /\ cur = input
  /\ ret = NoFence
  /\ EngineInit
  /\ curIndent = 0
  /\ loop = [i |-> 0, end |-> 0]
  /\ config = DefaultConfig
  /\ startNewlines = 0
  /\ results = <<>>

BlockCmdNext ==
  \/ BlocksEntry \/ BlocksIter \/ BlocksExit
  \/ InlineEntry \/ InlineIter \/ InlineExit

BlockCmdSpec == BlockCmdInit /\ [][BlockCmdNext]_vars

-----------------------------------------------------------------------------
(* C22: a block command and all up to its end command is passed through *)

\* the command name at s: the lowercase letters after the \ or @
NameAt(t, s) == Frag(t, s+1, SkipIn(t, s+1, Len(t), Lower) - (s+1))

\* the end marker the claim gives for the command at s
EndMarkerOf(t, s) ==
  LET name == NameAt(t, s)
      nextChar == At(t, s + 1 + Len(name))
  IN IF name = <<"c","o","d","e">> THEN (IF At(t, s-1) = "{" THEN <<"}">> ELSE <<"e","n","d","c","o","d","e">>)
     ELSE IF name = <<"s","t","a","r","t","u","m","l">> THEN <<"e","n","d","u","m","l">>
     ELSE IF name = <<"f">>
     THEN (CASE nextChar = "$" -> <<"f","$">>
             [] nextChar = "(" -> <<"f",")">>
             [] nextChar = "[" -> <<"f","]">>
             [] nextChar = "{" -> <<"f","}">>
             [] OTHER -> <<>>)
     ELSE IF name \in BlockNamesEnd THEN <<"e","n","d">> \o name
     ELSE <<>>

\* an unescaped \ or @ at s
Unescaped(t, s) ==
  /\ At(t, s) \in {"\\", "@"}
  /\ At(t, s-1) \notin {"\\", "@"}

\* the places of t where an unescaped \ or @ starts a block
BlockStartsIn(t) ==
  { s \in 0..Len(t)-1 : Unescaped(t, s) /\ EndMarkerOf(t, s) # <<>> }

\* the places after s where an unescaped \ or @ is followed by the marker m
BlockEndsIn(t, s, m) ==
  { e \in s+1..Len(t)-1 : Unescaped(t, e) /\ Frag(t, e+1, Len(m)) = m }

\* the first block of t, from its start command through its end marker
FirstBlock(t) ==
  LET s == LeastOr0(BlockStartsIn(t))
      m == EndMarkerOf(t, s)
      e == LeastOr0(BlockEndsIn(t, s, m))
  IN IF BlockStartsIn(t) = {} \/ BlockEndsIn(t, s, m) = {} THEN <<>>
     ELSE Frag(t, s, e + 1 + Len(m) - s)

\* t stands somewhere in s as it is
Occurs(t, s) == \E k \in 0..Len(s)-Len(t) : Frag(s, k, Len(t)) = t

\* isBlockCommand gives the marker of the claim everywhere in the input
MarkersAsClaimed ==
  \A s \in 0..Len(input)-1 :
    At(input, s) \in {"\\", "@"} =>
      isBlockCommand(input, s, s, Len(input)-s)
        = IF Unescaped(input, s) THEN EndMarkerOf(input, s) ELSE <<>>

\* C22: the end marker of a block command is endcode for code (} when the
\* command follows {), enduml for startuml, f$ f) f] f} for f by the
\* character after it and end+name for the other names, and none for a
\* command after \ or @; the text from the start command through the first
\* unescaped end marker stands unchanged in what processBlocks writes and in
\* what processInline writes.
C22_BlockPassthrough ==
  /\ MarkersAsClaimed
  /\ pc = "inline_entry" => Occurs(FirstBlock(input), cur)
  /\ pc = "post" => Occurs(FirstBlock(input), m_out)

-----------------------------------------------------------------------------
(* writeCodeBlock on its own: lines of code, blank lines and a line that    *)
(* ends the block, for three reference indents                              *)

\* most lines behind the first line of a code block
MaxCodeLines == 3

\* the reference indents processBlocks calls writeCodeBlock with
CodeRefIndents == {0, 1, 2}

\* a line of code: indented by the reference indent and codeBlockIndent, or more
CodeLines(refIndent) ==
  { Rep(SP, refIndent + codeBlockIndent + more) \o t :
      more \in {0, 1}, t \in { <<"x">>, <<"y"," ","z">>, <<"#"," ","h">> } }

\* the lines that may follow: code, blank lines, and lines indented too little
CodeFollowing(refIndent) ==
  CodeLines(refIndent)
  \cup { <<>>, <<" ">>, Rep(SP, refIndent + codeBlockIndent + 2) }
  \cup { Rep(SP, refIndent + codeBlockIndent - less) \o <<"u">> :
           less \in {1, refIndent + codeBlockIndent} }

CodeInputs(refIndent) ==
  { JoinLines(<<f>> \o ls) :
      f \in CodeLines(refIndent),
      ls \in SeqsUpTo(CodeFollowing(refIndent), MaxCodeLines) }

\* processBlocks at i+=writeCodeBlock(data+i,size-i,blockIndent)
CodeInit ==
  /\ pc = "code"
  /\ curIndent \in CodeRefIndents
  /\ input \in CodeInputs(curIndent)
  /\ cur = input
  /\ ret = NoFence
  /\ EngineInit
  /\ loop = [i |-> 0, end |-> 0]
  /\ config = DefaultConfig
  /\ startNewlines = 0
  /\ results = <<>>

\* CallWriteCodeBlock from what writeCodeBlock returns on
CallWriteCodeBlock_w(w) ==
  /\ m_out' = m_out \o w.out
  /\ ret' = [ret |-> w.ret]
  /\ loop' = [i |-> loop.i + w.ret, end |-> loop.end]

CallWriteCodeBlock ==
  /\ pc = "code"
  /\ CallWriteCodeBlock_w(writeCodeBlock(cur, loop.i, Len(cur)-loop.i, curIndent))
  /\ pc' = "coded"
  /\ UNCHANGED <<input, m_linkRefs, m_indentLevel, autoId, cur, curIndent,
                 config, startNewlines, results>>

CodeNext == CallWriteCodeBlock

CodeSpec == CodeInit /\ [][CodeNext]_vars

-----------------------------------------------------------------------------
(* C23: the extent of an indented code block *)

\* the columns of spaces a line starts with
LeadingSpaces(l) == SkipIn(l, 0, Len(l), {SP})

\* the lines the block takes: all up to the first line that is not blank and
\* is indented less than refIndent + codeBlockIndent
RECURSIVE Consumed(_,_)
Consumed(ls, refIndent) ==
  IF ls = <<>> THEN <<>>
  ELSE IF IsBlankLine(ls[1]) \/ LeadingSpaces(ls[1]) >= refIndent + codeBlockIndent
  THEN <<ls[1]>> \o Consumed(Tail(ls), refIndent)
  ELSE <<>>

\* how many blank lines end the sequence ls
RECURSIVE TrailingBlanks(_)
TrailingBlanks(ls) ==
  IF ls # <<>> /\ IsBlankLine(ls[Len(ls)])
  THEN 1 + TrailingBlanks(SubSeq(ls, 1, Len(ls)-1)) ELSE 0

\* the lines as they stand inside the block: a blank line is a newline, a
\* line of code loses refIndent + codeBlockIndent columns
RECURSIVE CodeBody(_,_)
CodeBody(ls, refIndent) ==
  IF ls = <<>> THEN <<>>
  ELSE (IF IsBlankLine(ls[1]) THEN <<NL>>
        ELSE SubSeq(ls[1], refIndent + codeBlockIndent + 1, Len(ls[1])) \o <<NL>>)
       \o CodeBody(Tail(ls), refIndent)

\* the characters of the lines ls, their newlines included
RECURSIVE LinesLen(_)
LinesLen(ls) == IF ls = <<>> THEN 0 ELSE Len(ls[1]) + 1 + LinesLen(Tail(ls))

ExpectedCodeBlock(t, refIndent) ==
  LET taken == Consumed(Lines(t, <<>>), refIndent)
      after == TrailingBlanks(taken)
      inside == SubSeq(taken, 1, Len(taken) - after)
  IN [ret |-> LinesLen(taken),
      out |-> <<"@","i","v","e","r","b","a","t","i","m",NL>> \o CodeBody(inside, refIndent)
              \o <<"@","e","n","d","i","v","e","r","b","a","t","i","m","\\","i","l","i","n","e","b","r"," ">> \o Rep(NL, after)]

\* C23: writeCodeBlock consumes, from its first line on, every line that is
\* blank or indented by refIndent+4 or more and stops at the first line that
\* is not blank and is indented less; a consumed line of code is written
\* without its first refIndent+4 columns between @iverbatim and
\* @endiverbatim, a consumed blank line is written as one newline, inside the
\* block when a line of code follows it and behind the end command otherwise.
C23_CodeBlockExtent ==
  pc = "coded" =>
    LET x == ExpectedCodeBlock(input, curIndent)
    IN m_out = x.out /\ ret.ret = x.ret

\* code, a blank line, code and the line that ends the block
C23_Witness ==
  /\ pc = "coded"
  /\ curIndent = 1
  /\ input = <<" "," "," "," "," ","x",NL," ",NL," "," "," "," "," "," ","y"," ","z",NL,"u",NL>>
  /\ m_out = <<"@","i","v","e","r","b","a","t","i","m",NL,"x",NL,NL," ","y"," ","z",NL,"@","e","n","d","i","v","e","r","b","a","t","i","m","\\","i","l","i","n","e","b","r"," ">>
  /\ ret.ret = 19

\* blank lines behind the last line of code come behind the end command
C23_WitnessBlankAfter ==
  /\ pc = "coded"
  /\ curIndent = 0
  /\ input = <<" "," "," "," ","x",NL,NL," ",NL,"u",NL>>
  /\ m_out = <<"@","i","v","e","r","b","a","t","i","m",NL,"x",NL,"@","e","n","d","i","v","e","r","b","a","t","i","m","\\","i","l","i","n","e","b","r"," ",NL,NL>>
  /\ ret.ret = 9

-----------------------------------------------------------------------------
(* process up to the end of the block pass over texts with lists: items,    *)
(* nested items, end-of-list lines, blank lines and text, the whole text    *)
(* indented by 0 or by 2 columns                                            *)

\* most lines of a text with lists
MaxListLines == 3

ListLineKinds == { <<"-"," ","a">>, <<" "," ","-"," ","b">>, <<"1","."," ","n">>, <<".">>, <<>>, <<"t">> }

\* the indent of the whole text; a blank line carries none
ListBases == { <<>>, <<" "," ">> }

Indented(base, l) == IF l = <<>> THEN l ELSE base \o l

ListDocs ==
  { JoinLines([k \in 1..Len(ls) |-> Indented(base, ls[k])]) :
      base \in ListBases,
      ls \in SeqsUpTo(ListLineKinds, MaxListLines) \ {<<>>} }

ListInit ==
  /\ pc = "process"
  /\ input \in ListDocs
  /\ ret = NoFence
  /\ EngineInit
  /\ cur = <<>>
  /\ curIndent = 0
  /\ loop = [i |-> 0, end |-> 0]
  /\ config = DefaultConfig
  /\ startNewlines = 0
  /\ results = <<>>

ListNext ==
  \/ Start \/ Detab
  \/ QuotationsEntry \/ QuotationsIter \/ QuotationsExit
  \/ BlocksEntry \/ BlocksIter \/ BlocksExit

ListSpec == ListInit /\ [][ListNext]_vars

-----------------------------------------------------------------------------
(* C24: the cap on the indent a list marker sets *)

\* the column behind the list marker of a line and the spaces after it, 0 for
\* a line without a marker
MarkerEnd(l) ==
  LET s == LeadingSpaces(l)
  IN IF At(l, s) \in {"-", "+", "*"} /\ At(l, s+1) = SP
     THEN SkipIn(l, s+1, Len(l), {SP})
     ELSE IF At(l, s) \in Digit /\ At(l, s+1) = "." /\ At(l, s+2) = SP
     THEN SkipIn(l, s+2, Len(l), {SP})
     ELSE 0

\* a line loop before an iteration
AtLine == (pc \in {"quotations", "blocks"}) /\ loop.i < Len(cur)

\* the line at hand ends a list: it follows a blank line and is indented less
\* than the threshold
ListEndsHere ==
  /\ loop.newBlock
  /\ loop.insideList
  /\ LeadingSpaces(LineAt(cur, loop.i)) < loop.currentIndent

\* the threshold and the flag the marker of the line at hand is compared with
ThresholdHere == IF ListEndsHere THEN curIndent ELSE loop.currentIndent
ActiveHere == IF ListEndsHere THEN FALSE ELSE loop.insideList

MarkerStep ==
  LET m == MarkerEnd(LineAt(cur, loop.i))
  IN m > 0 =>
       /\ IF m < ThresholdHere + 4
          THEN loop'.insideList /\ loop'.currentIndent = m
          ELSE loop'.insideList = ActiveHere
               /\ loop'.currentIndent = ThresholdHere
       /\ loop'.currentIndent < loop.currentIndent + 4

\* C24: in the line loops of processQuotations and processBlocks a line with
\* a list marker that ends at column m < currentIndent+4 makes a list active
\* and sets the threshold to m; a marker with m >= currentIndent+4 changes
\* neither the threshold nor the flag; so no marker raises the threshold by
\* 4 columns or more.
C24_ListIndentCap == [][AtLine => MarkerStep]_vars

\* an item at column 2 is taken, the item below it at column 4 as well
C24_Witness ==
  /\ pc = "blocks"
  /\ input = <<"-"," ","a",NL," "," ","-"," ","b",NL>>
  /\ loop.i = Len(cur)
  /\ loop.insideList
  /\ loop.currentIndent = 4

\* a marker that ends at column 4 in a text with base indent 0 starts no list
C24_WitnessCapped ==
  /\ pc = "blocks"
  /\ input = <<" "," ","-"," ","b",NL,"t",NL>>
  /\ loop.i = Len(cur)
  /\ ~loop.insideList
  /\ loop.currentIndent = 0

-----------------------------------------------------------------------------
(* C27: the threshold while no list is active *)

\* C27: in the line loops, while no list is active the threshold
\* currentIndent is the base indent the pass was called with
C27_ThresholdAtBase ==
  (pc \in {"quotations", "blocks"} /\ ~loop.insideList)
    => loop.currentIndent = curIndent

-----------------------------------------------------------------------------
(* The block pass and the inline pass over texts whose link reference       *)
(* definitions stand before, between and after the links that use them      *)

\* most lines of a text with links and definitions
MaxOrderLines == 3

\* definitions of a and b
OrderDefs == { <<"[","a","]",":"," ","/","x">>, <<"[","b","]",":"," ","/","y"," ","\"","T","\"">> }

\* lines that use a and b, a line that uses c, which is never defined, text
\* and the blank line
OrderUses == { <<"[","t","]","[","a","]"," ","p">>, <<"[","b","]",".">>, <<"[","t","]","[","c","]"," ","p">>, <<"p">>, <<>> }

OrderDocs ==
  { JoinLines(ls) :
      ls \in SeqsUpTo(OrderDefs \cup OrderUses, MaxOrderLines) \ {<<>>} }

OrderInit ==
  /\ pc = "blocks_entry"
  /\ input \in OrderDocs
  /\ cur = input
  /\ ret = NoFence
  /\ EngineInit
  /\ curIndent = 0
  /\ loop = [i |-> 0, end |-> 0]
  /\ config = DefaultConfig
  /\ startNewlines = 0
  /\ results = <<>>

OrderNext ==
  \/ BlocksEntry \/ BlocksIter \/ BlocksExit
  \/ InlineEntry \/ InlineIter \/ InlineExit

OrderSpec == OrderInit /\ [][OrderNext]_vars

-----------------------------------------------------------------------------
(* C25: links resolve whatever the order of use and definition *)

\* the definitions of a text, wherever they stand
DefinedIn(t) == { d \in OrderDefs : \E k \in DOMAIN Lines(t, <<>>) : Lines(t, <<>>)[k] = d }

\* what stands for a line in the result, given the definitions of the text
ResolvedLine(l, defs) ==
  IF l = <<"[","t","]","[","a","]"," ","p">> /\ <<"[","a","]",":"," ","/","x">> \in defs THEN <<"<","a"," ","h","r","e","f","=","\"","/","x","\""," ",">","t","<","/","a",">"," ","p">>
  ELSE IF l = <<"[","b","]",".">> /\ <<"[","b","]",":"," ","/","y"," ","\"","T","\"">> \in defs
  THEN <<"<","a"," ","h","r","e","f","=","\"","/","y","\""," ","t","i","t","l","e","=","\"","T","\""," ",">","b","<","/","a",">",".">>
  ELSE IF l \in OrderDefs THEN <<>>
  ELSE l

RECURSIVE ResolvedLines(_,_)
ResolvedLines(ls, defs) ==
  IF ls = <<>> THEN <<>>
  ELSE ResolvedLine(ls[1], defs) \o ResolvedLines(Tail(ls), defs)

\* a text without its newlines
WithoutNewlines(t) == SelectSeq(t, LAMBDA c : c # NL)

\* the labels of the table
TableLabels(refs) == { refs[k].id : k \in DOMAIN refs }

\* the table holds every definition of the text when processInline starts
TableWhole ==
  pc \in {"inline_entry", "inline", "post"} =>
    TableLabels(m_linkRefs) = { <<"a">> : d \in DefinedIn(input) \cap {<<"[","a","]",":"," ","/","x">>} }
                           \cup { <<"b">> : d \in DefinedIn(input) \cap {<<"[","b","]",":"," ","/","y"," ","\"","T","\"">>} }

\* up to newlines, the result is the lines that are no definitions, each link
\* with a definition anywhere in the text resolved
ResolvedAnyOrder ==
  pc = "post" =>
    WithoutNewlines(m_out)
      = ResolvedLines(Lines(input, <<>>), DefinedIn(input))

\* the inline pass leaves the table as it is
TableReadOnly ==
  (pc \in {"inline_entry", "inline"}) => m_linkRefs' = m_linkRefs

\* C25: processBlocks has put every definition of the text into the table
\* before processInline starts, so a reference link resolves whether its
\* definition stands before or after it; processInline and its handlers
\* leave the table as it is; a definition line writes nothing but, at most,
\* a newline
C25_OrderIndependent ==
  /\ []TableWhole
  /\ []ResolvedAnyOrder
  /\ [][TableReadOnly]_vars

\* a link whose definition follows it, and one whose definition precedes it
C25_Witness ==
  /\ pc = "post"
  /\ input = <<"[","b","]",":"," ","/","y"," ","\"","T","\"",NL,"[","t","]","[","a","]"," ","p",NL,"[","a","]",":"," ","/","x",NL>>
  /\ m_out = <<NL,"<","a"," ","h","r","e","f","=","\"","/","x","\""," ",">","t","<","/","a",">"," ","p",NL>>

-----------------------------------------------------------------------------
(* C26: the cell index of writeTableBlock *)

\* the body rows writeTableBlock accepts in the table at the start of t: the
\* cells it writes for each, the last one at index Len-1
AcceptedBody(t) ==
  LET h == findTableColumns(t, 0, Len(t))
      s == findTableColumns(t, h.ret, Len(t) - h.ret)
  IN BodyRows(t, 0, Len(t), h.ret + s.ret, h.columns).rows

\* C26: in writeTableBlock the cell index k of every accepted body row, one
\* whose column count is that of the header, stays within 0..C-1
C26_CellIndexInRange ==
  pc = "accepted" =>
    LET C == findTableColumns(input, 0, Len(input)).columns
    IN \A r \in DOMAIN AcceptedBody(input) :
         Len(AcceptedBody(input)[r]) - 1 \in 0..C-1

-----------------------------------------------------------------------------
(* extractTitleId called by several callers at once: each caller makes its  *)
(* calls one after the other, the calls of different callers interleave     *)

\* the callers, and the most calls of one caller
Callers == {1, 2}
MaxCalls == 2

\* the headers the calls are made for: with an id of their own and without,
\* at a level inside the table of contents and at one outside
TitleArgs == { <<"T">>, <<"T"," ","{","#","x","}">> }
LevelArgs == { 1, 2 }

\* static AtomicInt autoId: the value is read and the next one stored in one
\* step that no other caller comes between
AtomicPostIncrement(next) == autoId' = next

IdInit ==
  /\ pc = [t \in Callers |-> "call"]
  /\ loop = [t \in Callers |-> <<>>]
  /\ ret = [t \in Callers |-> <<>>]
  /\ input = <<>>
  /\ cur = <<>>
  /\ EngineInit
  /\ curIndent = 0
  /\ config = [DefaultConfig EXCEPT !.toc = 1]
  /\ startNewlines = 0
  /\ results = <<>>

\* CallExtractTitleId from what extractTitleId gives on
CallExtractTitleId_r(t, r) ==
  /\ AtomicPostIncrement(r.autoId)
  /\ loop' = [loop EXCEPT ![t] = r.id]
  /\ pc' = [pc EXCEPT ![t] = "return"]

\* caller t runs extractTitleId(title,level) up to its return statement
CallExtractTitleId(t) ==
  /\ pc[t] = "call"
  /\ Len(ret[t]) < MaxCalls
  /\ \E title \in TitleArgs, level \in LevelArgs :
       CallExtractTitleId_r(t, extractTitleId(title, level, config.toc, autoId))
  /\ UNCHANGED <<input, ret, m_out, m_linkRefs, m_indentLevel, cur, curIndent,
                 config, startNewlines, results>>

\* caller t gets the id
ReturnTitleId(t) ==
  /\ pc[t] = "return"
  /\ ret' = [ret EXCEPT ![t] = Append(@, loop[t])]
  /\ pc' = [pc EXCEPT ![t] = "call"]
  /\ UNCHANGED <<input, m_out, m_linkRefs, m_indentLevel, autoId, cur,
                 curIndent, loop, config, startNewlines, results>>

IdNext == \E t \in Callers : CallExtractTitleId(t) \/ ReturnTitleId(t)

IdSpec == IdInit /\ [][IdNext]_vars

-----------------------------------------------------------------------------
(* C28: generated ids are never handed out twice *)

\* a generated id, and its number
IsGenerated(id) == Len(id) > 10 /\ SubSeq(id, 1, 10) = <<"a","u","t","o","t","o","c","_","m","d">>
NumberOf(id) ==
  CHOOSE n \in 0..(Cardinality(Callers) * MaxCalls) :
    id = <<"a","u","t","o","t","o","c","_","m","d">> \o setNum(n)

\* the calls that have generated an id: caller t's k-th call, the one that
\* has not returned yet included
Generations ==
  { <<t, k>> \in Callers \X (1..MaxCalls) :
      \/ k <= Len(ret[t]) /\ IsGenerated(ret[t][k])
      \/ k = Len(ret[t]) + 1 /\ pc[t] = "return" /\ IsGenerated(loop[t]) }
IdOf(g) == IF g[2] <= Len(ret[g[1]]) THEN ret[g[1]][g[2]] ELSE loop[g[1]]

\* no two calls have the same generated id, the ids of one caller grow, and
\* every id handed out is below the counter
IdsDistinct ==
  /\ \A g, h \in Generations : g # h => IdOf(g) # IdOf(h)
  /\ \A g, h \in Generations :
       (g[1] = h[1] /\ g[2] < h[2]) => NumberOf(IdOf(g)) < NumberOf(IdOf(h))
  /\ \A g \in Generations :
       IdOf(g) = <<"a","u","t","o","t","o","c","_","m","d">> \o setNum(NumberOf(IdOf(g)))
       /\ NumberOf(IdOf(g)) < autoId

\* a call that generates an id takes the number the counter has, which is
\* above every number taken before, and leaves the counter one higher
IdsGrow ==
  \A t \in Callers :
    (pc[t] = "call" /\ pc'[t] = "return" /\ IsGenerated(loop'[t])) =>
      /\ loop'[t] = <<"a","u","t","o","t","o","c","_","m","d">> \o setNum(autoId)
      /\ autoId' = autoId + 1

\* C28: whatever the interleaving of the callers, every generated id is
\* autotoc_md<n> with an n no other generated id has, and n grows from one
\* generation to the next
C28_IdsNeverRepeat == []IdsDistinct /\ [][IdsGrow]_vars

\* caller 2 generates its id after caller 1 and gets it first
C28_Witness ==
  /\ pc[1] = "return"
  /\ loop[1] = <<"a","u","t","o","t","o","c","_","m","d","0">>
  /\ ret[2] = << <<"a","u","t","o","t","o","c","_","m","d","1">>, <<"x">> >>

-----------------------------------------------------------------------------
(* isHeaderline on its own, called as processBlocks calls it, with level    *)
(* adjustment and indent level 0 or -1, and as extractPageTitle calls it,   *)
(* without adjustment on a new engine                                       *)

\* longest line handed to isHeaderline, its newline not counted
MaxUnderline == 4

UnderlineChars == { "=", "-", SP, "x" }

\* a line with its newline, or the last line of a text without one
UnderlineInputs ==
  { l \o e : l \in SeqsUpTo(UnderlineChars, MaxUnderline), e \in { <<>>, <<NL>> } }

\* allowAdjustLevel and m_indentLevel at the calls: processBlocks on a page
\* without and with a title, extractPageTitle
UnderlineCalls ==
  { [allowAdjustLevel |-> TRUE, indentLevel |-> 0],
    [allowAdjustLevel |-> TRUE, indentLevel |-> -1],
    [allowAdjustLevel |-> FALSE, indentLevel |-> 0] }

UnderlineInit ==
  /\ pc = "isHeaderline"
  /\ input \in UnderlineInputs
  /\ cur = input
  /\ \E c \in UnderlineCalls :
       /\ loop = [allowAdjustLevel |-> c.allowAdjustLevel]
       /\ config = [DefaultConfig EXCEPT !.indentLevel = c.indentLevel]
  /\ m_indentLevel = config.indentLevel
  /\ m_out = <<>>
  /\ m_linkRefs = <<>>
  /\ autoId = 0
  /\ ret = NoFence
  /\ curIndent = 0
  /\ startNewlines = 0
  /\ results = <<>>

\* CallIsHeaderline from what isHeaderline gives on
CallIsHeaderline_r(r) ==
  /\ ret' = [ret |-> r.ret]
  /\ m_indentLevel' = r.indentLevel

\* level=isHeaderline(data+i,size-i,allowAdjustLevel)
CallIsHeaderline ==
  /\ pc = "isHeaderline"
  /\ CallIsHeaderline_r(isHeaderline(cur, 0, Len(cur), loop.allowAdjustLevel,
                                     m_indentLevel))
  /\ pc' = "underlined"
  /\ UNCHANGED <<input, m_out, m_linkRefs, autoId, cur, curIndent, loop,
                 config, startNewlines, results>>

UnderlineNext == CallIsHeaderline

UnderlineSpec == UnderlineInit /\ [][UnderlineNext]_vars

-----------------------------------------------------------------------------
(* C29: the value isHeaderline returns *)

\* a Setext underline: spaces, two or more = or two or more -, spaces, and
\* then the newline or the end of the text
ValidUnderline(t) ==
  LET l == LineAt(t, 0)
      s == LeadingSpaces(l)
      c == At(l, s)
      e == SkipIn(l, s, Len(l), {c})
  IN /\ c \in {"=", "-"}
     /\ e - s >= 2
     /\ SkipIn(l, e, Len(l), {SP}) = Len(l)

\* C29: isHeaderline returns a level above 0 for a valid Setext underline
\* and 0 for every other line, with indent level 0 and -1 and with and
\* without level adjustment; it never returns a value below 0
C29_HeaderlineLevel ==
  pc = "underlined" =>
    /\ ret.ret >= 0
    /\ ValidUnderline(input) <=> ret.ret > 0

-----------------------------------------------------------------------------
(* processInline on texts that end inside a construct: links with a title,  *)
(* emphasis of three markers, dashes and comments, with text behind them    *)
(* or none                                                                  *)

\* constructs a handler reads to their end, whole and cut short
BoundsPieces ==
  { <<"[","a","]","(","/","x"," ","\"","t","\"",")">>, <<"[","a","]","(","/","x"," ","\"","t","\""," ",")">>, <<"[","a","]","(","/","x"," ","\"","t","\""," ">>, <<"[","a","]","(","/","x"," ","\"","t","\""," "," ">>, <<"[","a","]","(","/","x"," ","'","t","'"," ">>,
    <<"[","a","]","(","/","x"," ","\"","t","\"">>, <<"[","a","]","(","/","x">>, <<"[","a","]","[">>, <<"!","[","a","]","(","/","x"," ","\"","t","\""," ">>,
    <<"*","*","*","a","*","*","*">>, <<"*","*","*","a","*","*","b","*">>, <<"*","*","*","a","*","b","*","*">>, <<"*","*","*","a">>, <<"*","*","a","*","*">>, <<"_","_","_","a","_","_","_">>,
    <<"-","-">>, <<"-","-","-">>, <<"<","!","-","-">>, <<"<","!","-","-","-">>, <<"\\","-","-","-">>, <<BT,"a",BT>>, <<"\"","a","\"">>, <<"<","a",">">>,
    <<"\\","c","o","d","e"," ","x"," ","\\","e","n","d","c","o","d","e">>, <<"\\","c","o","d","e"," ","x">> }

\* what stands behind the construct: nothing, text, or the end of the line
BoundsAfter == { <<>>, <<SP>>, <<"b">>, <<NL>> }

BoundsTexts ==
  { b \o p \o a : b \in { <<>>, <<"c"," ">> }, p \in BoundsPieces, a \in BoundsAfter }

\* processInline(data,size) on a buffer of its own: the texts end with a
\* newline, as the text process passes on does, and without one
BoundsInit ==
  /\ pc = "inline_entry"
  /\ input \in BoundsTexts
  /\ cur = input
  /\ ret = NoFence
  /\ m_out = <<>>
  /\ m_linkRefs \in DispatchRefs
  /\ m_indentLevel = 0
  /\ autoId = 0
  /\ curIndent = 0
  /\ loop = [i |-> 0, end |-> 0]
  /\ config = DefaultConfig
  /\ startNewlines = 0
  /\ results = <<>>

BoundsNext == InlineEntry \/ InlineIter \/ InlineExit

BoundsSpec == BoundsInit /\ [][BoundsNext]_vars

-----------------------------------------------------------------------------
(* C30: the scan of processInline stays inside the buffer *)

\* the bytes left for the handler of the next trigger
BytesLeft == Len(cur) - NextTrigger

====
